---------------------------- MODULE Spec2Model ----------------------------
(***************************************************************************)
(* Airflow health dashboard backend: the two-tier cache (app/cache.py),    *)
(* the health service (app/service.py), the Airflow REST gateway           *)
(* (app/airflow_client.py), the report scheduler (app/scheduler.py) and    *)
(* the failure analysis (app/llm_service.py).                              *)
(*                                                                         *)
(* The module holds several specifications over one set of variables; a    *)
(* specification leaves the variables of the other subsystems untouched.   *)
(*   SpecCache    CacheService driven directly (get/set/delete/clear_all)  *)
(*   SpecGroup    HealthService._group_dags_by_tags on bounded inputs      *)
(*   SpecGateway  AirflowAPIClient: _make_request, get_all_dags,           *)
(*                get_all_dag_runs_for_dags                                *)
(*   SpecService  HealthService.get_dashboard_data, get_domain_detail and  *)
(*                get_failure_analysis over the cache and a gateway whose  *)
(*                calls succeed or raise                                   *)
(*   SpecSummary  the aggregation of get_dashboard_data and the filter of  *)
(*                get_domain_detail over bounded listings and runs         *)
(*   SpecSched    ScheduledReporter.run_scheduler (app/scheduler.py)       *)
(*   SpecLogs     HealthService._fetch_consolidated_logs                   *)
(*   SpecAnalysis the analysis step of get_failure_analysis over           *)
(*                LLMService.analyze_failures (app/llm_service.py)         *)
(*   SpecClient   AirflowAPIClient.__init__                                *)
(*   SpecReport   ScheduledReporter.generate_and_send_report over          *)
(*                SlackService.send_health_summary (app/slack_service.py)  *)
(*   SpecStamp    SpecService under a clock that reads an entry before it  *)
(*                expires                                                  *)
(*   SpecDetail   get_domain_detail over runs that change between fetches  *)
(*   SpecRuns     the runs of one workflow aggregated and displayed        *)
(*   SpecLifespan the background tasks and the shutdown of app/main.py;    *)
(*                FairLifespan adds the event loop's fairness              *)
(*   SpecWindow   ScheduledReporter._is_time_to_report on every minute of   *)
(*                the day                                                  *)
(*   SpecClear    SpecService with POST /cache/clear (app/api/routes.py)   *)
(*   SpecSweep    the in-process cache next to its size limit              *)
(*   SpecLast     the last run of a workflow summary over dated runs       *)
(*   SpecPartial  get_dashboard_data when run requests fail                *)
(***************************************************************************)
EXTENDS Integers, Sequences, FiniteSets, TLC

VARIABLES
    use_redis,          \* CacheService.use_redis
    memory_cache,       \* CacheService.memory_cache      (key -> value)
    cache_timestamps,   \* CacheService.cache_timestamps  (key -> utcnow at set)
    redis_db,           \* the Redis server's keyspace    (key -> value, expiry)
    now,                \* datetime.utcnow(), in seconds
    cache_op,           \* the last direct cache operation and what it returned
    last_set,           \* history: per key, the last set() not yet deleted
    group_in,           \* _group_dags_by_tags: the argument dags
    group_out,          \* _group_dags_by_tags: the returned dict, None before
    auth_type,          \* AirflowAPIClient.auth_type
    mwaa_session_cookie,\* AirflowAPIClient.mwaa_session_cookie (0: not set)
    airflow_total,      \* number of DAGs the Airflow server lists
    req,                \* the _make_request call in progress
    dags_call,          \* the get_all_dags call in progress
    runs_call,          \* the get_all_dag_runs_for_dags call in progress
    airflow_dags,       \* the DAGs the Airflow server lists to the service
    call,               \* the HealthService call in progress
    result,             \* how the call that just ended ended
    history,            \* what the calls so far did: their number, per
                        \* key the time of the last successful aggregation
                        \* that wrote it (-1 if none), and the domains
                        \* reported as not found
    agg,                \* one aggregation over a given listing and its
                        \* runs: the workflows, their runs, the responses
    sched,              \* ScheduledReporter.run_scheduler: its clock, its
                        \* locals and the generations it invoked
    logs,               \* HealthService._fetch_consolidated_logs: the
                        \* failing workflows and the requests it made
    failure_analysis,   \* one get_failure_analysis call and its provider
    client,             \* AirflowAPIClient.__init__: settings and outcome
    report,             \* one generate_and_send_report call
    lifespan            \* the application's lifespan: its shutdown sequence
                        \* and the two background tasks

cacheVars == <<use_redis, memory_cache, cache_timestamps, redis_db, now>>
driverVars == <<cache_op, last_set>>
groupVars == <<group_in, group_out>>
clientVars == <<auth_type, mwaa_session_cookie, airflow_total>>
gatewayVars == <<clientVars, req, dags_call, runs_call>>
serviceVars == <<airflow_dags, call, result, history>>
extraVars ==
    <<agg, sched, logs, failure_analysis, client, report, lifespan>>
coreVars == <<cacheVars, driverVars, groupVars, gatewayVars, serviceVars>>
vars ==
    <<cacheVars, driverVars, groupVars, gatewayVars, serviceVars, extraVars>>

\* what each specification leaves untouched
outsideCache ==
    <<groupVars, gatewayVars, airflow_dags, call, history, extraVars>>
outsideGroup ==
    <<cacheVars, driverVars, gatewayVars, serviceVars, extraVars>>
outsideGateway ==
    <<cacheVars, driverVars, groupVars, serviceVars, extraVars>>
outsideService == <<last_set, groupVars, gatewayVars, extraVars>>
outsideSummary ==
    <<coreVars, sched, logs, failure_analysis, client, report, lifespan>>
outsideSched ==
    <<coreVars, agg, logs, failure_analysis, client, report, lifespan>>
outsideLogs ==
    <<coreVars, agg, sched, failure_analysis, client, report, lifespan>>
outsideAnalysis == <<coreVars, agg, sched, logs, client, report, lifespan>>
outsideClient ==
    <<coreVars, agg, sched, logs, failure_analysis, report, lifespan>>
outsideReport ==
    <<coreVars, agg, sched, logs, failure_analysis, client, lifespan>>
outsideLifespan ==
    <<coreVars, agg, sched, logs, failure_analysis, client, report>>

-----------------------------------------------------------------------------
(* Program constants *)

cache_ttl_seconds == 120        \* settings.cache_ttl_seconds (default)
FallbackTtl == 3600             \* ttl=3600 of the fallback entries
AnalysisTtl == 300              \* ttl=300 of the failure analysis entry
MemoryCacheLimit == 1000        \* len(self.memory_cache) > 1000

(* Bounds *)

MaxTicks == 2                   \* number of clock advances in a behaviour
TickSteps == {120, 3600}        \* seconds the clock advances by in one step

None == [type |-> "None"]       \* Python's None

\* number of clock advances that led to the instant t (t = 120a + 3600b,
\* a < 30)
TicksAt(t) == (t \div 3600) + ((t % 3600) \div 120)

TimeRanges == {"24h"}           \* TimeRange values used for the cache keys
DomainTags == {"a"}             \* domain_tag values requested

dashboard_key(tr) == "dashboard:" \o tr
dashboard_fallback_key(tr) == "dashboard_fallback:" \o tr
domain_key(d, tr) == "domain:" \o d \o ":" \o tr
domain_fallback_key(d, tr) == "domain_fallback:" \o d \o ":" \o tr
analysis_key(tr) == "failure_analysis:" \o tr

Keys ==
    {dashboard_key(tr) : tr \in TimeRanges}
    \cup {dashboard_fallback_key(tr) : tr \in TimeRanges}
    \cup {domain_key(d, tr) : d \in DomainTags, tr \in TimeRanges}
    \cup {domain_fallback_key(d, tr) : d \in DomainTags, tr \in TimeRanges}
    \cup {analysis_key(tr) : tr \in TimeRanges}

-----------------------------------------------------------------------------
(* Values.  A datetime is [type |-> "datetime", at |-> t]; its rendering   *)
(* as text (isoformat(), str()) is [type |-> "str", at |-> t].             *)

DateTime(t) == [type |-> "datetime", at |-> t]
DateStr(t) == [type |-> "str", at |-> t]

\* json.dumps(value, default=str): a datetime is not JSON, so default=str
\* renders it as text.
JsonDefaultStr(x) == IF x.type = "datetime" THEN DateStr(x.at) ELSE x

\* json.loads(json.dumps(value, default=str)) of a response dict: every
\* datetime in it, top level or nested in a summary, comes back as text.
JsonRoundTrip(v) ==
    IF v = None THEN None
    ELSE [f \in DOMAIN v |->
            IF f = "last_updated" THEN JsonDefaultStr(v[f])
            ELSE IF f = "domains"
                 THEN [i \in DOMAIN v[f] |->
                         [v[f][i] EXCEPT !.last_updated = JsonDefaultStr(@)]]
            ELSE IF f = "summary"
                 THEN [v[f] EXCEPT !.last_updated = JsonDefaultStr(@)]
            ELSE v[f]]

-----------------------------------------------------------------------------
(* CacheService.  The operators take and return the cache state            *)
(* cs = [memory_cache, cache_timestamps, redis_db] so that a handler can   *)
(* chain several cache calls in one step.                                  *)

CacheState ==
    [memory_cache |-> memory_cache,
     cache_timestamps |-> cache_timestamps,
     redis_db |-> redis_db]

EmptyMap == [k \in {} |-> None]

Remove(f, k) == [x \in DOMAIN f \ {k} |-> f[x]]
Put(f, k, v) == [x \in DOMAIN f \cup {k} |-> IF x = k THEN v ELSE f[x]]

\* the test of the in-process backend: utcnow() - timestamp < cache_ttl_seconds
memory_fresh(timestamp, t) == t - timestamp < cache_ttl_seconds

\* Redis keeps a key written by SETEX until its expiry instant
redis_live(cs, t, key) ==
    key \in DOMAIN cs.redis_db /\ t < cs.redis_db[key].expire_at

\* a get that drops the value of an expired entry and keeps its timestamp
get_keeping_timestamp(cs, t, key) ==
    IF use_redis
    THEN IF redis_live(cs, t, key)
         THEN [ret |-> cs.redis_db[key].value, cs |-> cs]
         ELSE [ret |-> None, cs |-> cs]
    ELSE IF key \in DOMAIN cs.memory_cache
         THEN IF memory_fresh(cs.cache_timestamps[key], t)
              THEN [ret |-> cs.memory_cache[key], cs |-> cs]
              ELSE [ret |-> None,
                    cs |-> [cs EXCEPT !.memory_cache = Remove(@, key)]]
         ELSE [ret |-> None, cs |-> cs]

\* CacheService.get
get(cs, t, key) ==
    IF use_redis
    THEN IF redis_live(cs, t, key)
         THEN [ret |-> cs.redis_db[key].value, cs |-> cs]
         ELSE [ret |-> None, cs |-> cs]
    ELSE IF key \in DOMAIN cs.memory_cache
         THEN IF memory_fresh(cs.cache_timestamps[key], t)
              THEN [ret |-> cs.memory_cache[key], cs |-> cs]
              ELSE [ret |-> None,
                    cs |-> [cs EXCEPT
                              !.memory_cache = Remove(@, key),
                              !.cache_timestamps = Remove(@, key)]]
         ELSE [ret |-> None, cs |-> cs]

\* a sweep that keeps the entries whose age equals the TTL
_cleanup_memory_cache_strict(cs, t) ==
    LET expired_keys == {k \in DOMAIN cs.cache_timestamps :
                            t - cs.cache_timestamps[k] > cache_ttl_seconds}
    IN [cs EXCEPT
          !.memory_cache = [k \in DOMAIN @ \ expired_keys |-> @[k]],
          !.cache_timestamps = [k \in DOMAIN @ \ expired_keys |-> @[k]]]

\* CacheService._cleanup_memory_cache
_cleanup_memory_cache(cs, t) ==
    LET expired_keys == {k \in DOMAIN cs.cache_timestamps :
                            t - cs.cache_timestamps[k] >= cache_ttl_seconds}
    IN [cs EXCEPT
          !.memory_cache = [k \in DOMAIN @ \ expired_keys |-> @[k]],
          !.cache_timestamps = [k \in DOMAIN @ \ expired_keys |-> @[k]]]

\* ttl = ttl or settings.cache_ttl_seconds  (None and 0 are both falsy)
effective_ttl(ttl) == IF ttl = 0 THEN cache_ttl_seconds ELSE ttl

\* CacheService.set; ttl = 0 stands for the default ttl=None
set(cs, t, key, value, ttl) ==
    IF use_redis
    THEN [cs EXCEPT !.redis_db =
            Put(@, key, [value |-> JsonRoundTrip(value),
                         expire_at |-> t + effective_ttl(ttl)])]
    ELSE LET stored == [cs EXCEPT !.memory_cache = Put(@, key, value),
                                  !.cache_timestamps = Put(@, key, t)]
         IN IF Cardinality(DOMAIN stored.memory_cache) > MemoryCacheLimit
            THEN _cleanup_memory_cache(stored, t)
            ELSE stored

\* CacheService.delete
delete(cs, key) ==
    IF use_redis
    THEN [cs EXCEPT !.redis_db = Remove(@, key)]
    ELSE IF key \in DOMAIN cs.memory_cache
         THEN [cs EXCEPT !.memory_cache = Remove(@, key),
                         !.cache_timestamps = Remove(@, key)]
         ELSE cs

\* a clear that removes the primary entries and keeps the fallback entries
clear_all_primary(cs) ==
    LET kept(m) == [k \in {x \in DOMAIN m :
                              x \in {dashboard_fallback_key(tr) :
                                        tr \in TimeRanges}
                                     \cup {domain_fallback_key(d, tr) :
                                              d \in DomainTags,
                                              tr \in TimeRanges}} |-> m[k]]
    IN IF use_redis
       THEN [cs EXCEPT !.redis_db = kept(@)]
       ELSE [cs EXCEPT !.memory_cache = kept(@),
                       !.cache_timestamps = kept(@)]

\* CacheService.clear_all
clear_all(cs) ==
    IF use_redis
    THEN [cs EXCEPT !.redis_db = EmptyMap]
    ELSE [cs EXCEPT !.memory_cache = EmptyMap, !.cache_timestamps = EmptyMap]

StoreCache(cs) ==
    /\ memory_cache' = cs.memory_cache
    /\ cache_timestamps' = cs.cache_timestamps
    /\ redis_db' = cs.redis_db

\* the Redis server drops the keys whose expiry instant has been reached
redis_expire(db, t) == [k \in {x \in DOMAIN db : t < db[x].expire_at} |-> db[k]]

-----------------------------------------------------------------------------
(* Python strings.  TLC evaluates Len, SubSeq and \o on strings.           *)

PyStr(s) == [type |-> "str", value |-> s]
IsStr(x) == x.type = "str"

CharAt(s, i) == SubSeq(s, i, i)

\* str.startswith
startswith(s, p) == Len(s) >= Len(p) /\ SubSeq(s, 1, Len(p)) = p

Whitespace == {" ", "\t", "\n"}

\* str.strip
RECURSIVE lstrip(_)
lstrip(s) ==
    IF Len(s) > 0 /\ CharAt(s, 1) \in Whitespace
    THEN lstrip(SubSeq(s, 2, Len(s)))
    ELSE s

RECURSIVE rstrip(_)
rstrip(s) ==
    IF Len(s) > 0 /\ CharAt(s, Len(s)) \in Whitespace
    THEN rstrip(SubSeq(s, 1, Len(s) - 1))
    ELSE s

strip(s) == rstrip(lstrip(s))

\* s.split(":", 1)[1] for a string that holds a colon
split_colon_1(s) ==
    LET i == CHOOSE i \in 1..Len(s) :
                /\ CharAt(s, i) = ":"
                /\ \A j \in 1..(i - 1) : CharAt(s, j) # ":"
    IN SubSeq(s, i + 1, Len(s))

-----------------------------------------------------------------------------
(* Workflows (DAGs) as the Airflow API returns them.                       *)
(*   dag  = [dag_id, tags]                                                 *)
(*   tags = None | PyList(<<tag, ...>>) | PyDict(<<entry, ...>>)           *)
(*   tag  = PyStr(s) | PyDict(<<entry, ...>>)                              *)
(*   entry = [key |-> s, value |-> PyStr(s) or None]                       *)

PyList(items) == [type |-> "list", items |-> items]
PyDict(entries) == [type |-> "dict", entries |-> entries]
NameTag(s) == PyDict(<<[key |-> "name", value |-> PyStr(s)]>>)

\* "name" in d
dict_has(d, k) == \E i \in DOMAIN d.entries : d.entries[i].key = k
\* d[k]
dict_item(d, k) ==
    d.entries[CHOOSE i \in DOMAIN d.entries : d.entries[i].key = k].value
\* [str(k) for k in d.keys()]
dict_keys(d) == [i \in DOMAIN d.entries |-> PyStr(d.entries[i].key)]

\* list_tag_names as it would be if only string tags were handled
RECURSIVE list_tag_names_strings_only(_)
list_tag_names_strings_only(items) ==
    IF items = <<>> THEN <<>>
    ELSE IF Head(items).type = "str"
         THEN <<Head(items)>> \o list_tag_names_strings_only(Tail(items))
         ELSE list_tag_names_strings_only(Tail(items))

\* the loop "for tag in tags" that normalizes a list of tags to names
RECURSIVE list_tag_names(_)
list_tag_names(items) ==
    IF items = <<>> THEN <<>>
    ELSE LET tag == Head(items)
             rest == list_tag_names(Tail(items))
         IN IF tag.type = "str" THEN <<tag>> \o rest
            ELSE IF tag.type = "dict" /\ dict_has(tag, "name")
                 THEN <<dict_item(tag, "name")>> \o rest
            ELSE rest

\* "Normalize tags to a list of strings" of _group_dags_by_tags
group_tag_names(tags) ==
    IF tags.type = "list" THEN list_tag_names(tags.items)
    ELSE IF tags.type = "dict"
         THEN IF dict_has(tags, "name") THEN <<dict_item(tags, "name")>>
              ELSE dict_keys(tags)
    ELSE <<>>

\* bool(tags): None, [] and {} are falsy
truthy_tags(tags) ==
    /\ tags # None
    /\ tags.type = "list" => tags.items # <<>>
    /\ tags.type = "dict" => tags.entries # <<>>

\* the "Look for domain tag" loop: the domain of the first tag name that
\* starts with "domain:" and has a non-empty stripped suffix, else None
RECURSIVE first_domain(_)
first_domain(tag_names) ==
    IF tag_names = <<>> THEN None
    ELSE LET tag_name == Head(tag_names)
         IN IF IsStr(tag_name) /\ startswith(tag_name.value, "domain:")
               /\ strip(split_colon_1(tag_name.value)) # ""
            THEN PyStr(strip(split_colon_1(tag_name.value)))
            ELSE first_domain(Tail(tag_names))

\* the domain one workflow is appended to by _group_dags_by_tags
dag_domain(dag) ==
    IF ~truthy_tags(dag.tags) THEN "untagged"
    ELSE LET found == first_domain(group_tag_names(dag.tags))
         IN IF found = None THEN "untagged" ELSE found.value

\* defaultdict(list) in insertion order: keys is the order of first
\* insertion, lists maps a key to its list
EmptyGroups == [keys |-> <<>>, lists |-> [k \in {} |-> <<>>]]

InSeq(x, sq) == \E i \in DOMAIN sq : sq[i] = x

groups_append(g, name, dag) ==
    IF name \in DOMAIN g.lists
    THEN [g EXCEPT !.lists[name] = Append(@, dag)]
    ELSE [keys |-> Append(g.keys, name),
          lists |-> [k \in DOMAIN g.lists \cup {name} |->
                        IF k = name THEN <<dag>> ELSE g.lists[k]]]

\* HealthService._group_dags_by_tags
RECURSIVE group_from(_, _)
group_from(g, dags) ==
    IF dags = <<>> THEN g
    ELSE group_from(groups_append(g, dag_domain(Head(dags)), Head(dags)),
                    Tail(dags))

_group_dags_by_tags(dags) == group_from(EmptyGroups, dags)

-----------------------------------------------------------------------------
(* SpecCache: the cache driven directly by its callers *)

TtlArgs == {0, 60, FallbackTtl}     \* ttl arguments; 0 is ttl=None

CacheValues ==
    {[kind |-> "dashboard", last_updated |-> DateTime(0)],
     [kind |-> "analysis", generated_at |-> DateStr(0)]}

\* the keys the direct callers use
CacheKeys == {dashboard_key("24h"), dashboard_fallback_key("24h")}

NoOp == [op |-> "none"]

\* CacheService.__init__; Redis is used when its URL is set and it answers
CacheInit ==
    /\ use_redis \in BOOLEAN
    /\ memory_cache = EmptyMap
    /\ cache_timestamps = EmptyMap
    /\ redis_db = EmptyMap
    /\ now = 0

DriverIdle == cache_op = NoOp /\ last_set = [k \in Keys |-> None]
GroupIdle == group_in = <<>> /\ group_out = None

Idle == [pc |-> "idle"]

GatewayIdle ==
    /\ auth_type = "token"
    /\ mwaa_session_cookie = 0
    /\ airflow_total = 0
    /\ req = Idle
    /\ dags_call = Idle
    /\ runs_call = Idle

NoResult == [outcome |-> "none"]

NoHistory ==
    [calls |-> 0, last_success |-> [k \in Keys |-> -1], not_found |-> {}]

ServiceIdle ==
    /\ airflow_dags = <<>>
    /\ call = Idle
    /\ result = NoResult
    /\ history = NoHistory

NoAggregation ==
    [dags |-> <<>>, runs |-> <<>>, out |-> None, detail |-> None]

SummaryIdle == agg = NoAggregation

SchedIdle == sched = Idle

LogsIdle == logs = Idle

AnalysisIdle == failure_analysis = Idle

ClientIdle == client = Idle

ReportIdle == report = Idle

LifespanIdle == lifespan = Idle

ExtraIdle ==
    /\ SummaryIdle
    /\ SchedIdle
    /\ LogsIdle
    /\ AnalysisIdle
    /\ ClientIdle
    /\ ReportIdle
    /\ LifespanIdle

\* the cache, the gateway and the service before any call
CoreIdle ==
    /\ CacheInit /\ use_redis = FALSE
    /\ DriverIdle
    /\ GroupIdle
    /\ GatewayIdle
    /\ ServiceIdle

InitCache ==
    /\ CacheInit
    /\ DriverIdle
    /\ GroupIdle
    /\ GatewayIdle
    /\ ServiceIdle
    /\ ExtraIdle

CacheSet(key, value, ttl) ==
    /\ StoreCache(set(CacheState, now, key, value, ttl))
    /\ cache_op' = [op |-> "set", key |-> key, ret |-> TRUE]
    /\ last_set' = [last_set EXCEPT ![key] =
                       [value |-> value, ttl |-> ttl, at |-> now]]
    /\ UNCHANGED <<use_redis, now, result, outsideCache>>

CacheGet(key) ==
    LET r == get(CacheState, now, key)
    IN /\ StoreCache(r.cs)
       /\ cache_op' = [op |-> "get", key |-> key, ret |-> r.ret]
       /\ UNCHANGED <<use_redis, now, last_set, result, outsideCache>>

CacheDelete(key) ==
    /\ StoreCache(delete(CacheState, key))
    /\ cache_op' = [op |-> "delete", key |-> key, ret |-> TRUE]
    /\ last_set' = [last_set EXCEPT ![key] = None]
    /\ UNCHANGED <<use_redis, now, result, outsideCache>>

CacheClearAll ==
    /\ StoreCache(clear_all(CacheState))
    /\ cache_op' = [op |-> "clear_all", ret |-> TRUE]
    /\ last_set' = [k \in Keys |-> None]
    /\ UNCHANGED <<use_redis, now, result, outsideCache>>

\* time passes
Tick(d) ==
    /\ TicksAt(now) < MaxTicks
    /\ now' = now + d
    /\ redis_db' = redis_expire(redis_db, now + d)
    /\ cache_op' = NoOp
    /\ result' = NoResult
    /\ UNCHANGED <<use_redis, memory_cache, cache_timestamps, last_set,
                   outsideCache>>

NextCache ==
    \/ \E key \in CacheKeys, value \in CacheValues, ttl \in TtlArgs :
          CacheSet(key, value, ttl)
    \/ \E key \in CacheKeys : CacheGet(key)
    \/ \E key \in CacheKeys : CacheDelete(key)
    \/ CacheClearAll
    \/ \E d \in TickSteps : Tick(d)

SpecCache == InitCache /\ [][NextCache]_vars

-----------------------------------------------------------------------------
(* SpecGroup: _group_dags_by_tags applied to bounded lists of workflows *)

MaxDags == 2                    \* workflows in the grouped list
MaxTags == 2                    \* tags of one workflow

DagNames == <<"d1", "d2", "d3", "d4">>

GroupTagItems ==
    {PyStr("domain: b "), PyStr("domain:"), PyStr("team"), NameTag("domain:a")}

SeqsUpTo(S, n) == UNION {[1..m -> S] : m \in 0..n}

GroupTagsValues ==
    {None,
     PyDict(<<[key |-> "name", value |-> PyStr("domain:a")]>>),
     PyDict(<<[key |-> "domain:b", value |-> None]>>)}
    \cup {PyList(items) : items \in SeqsUpTo(GroupTagItems, MaxTags)}

InitGroup ==
    /\ group_in = <<>>
    /\ group_out = None
    /\ CacheInit /\ use_redis = FALSE
    /\ DriverIdle
    /\ GatewayIdle
    /\ ServiceIdle
    /\ ExtraIdle

\* the listing grows by one workflow with the given tags
AddDag(tags) ==
    /\ group_out = None
    /\ Len(group_in) < MaxDags
    /\ group_in' = Append(group_in, [dag_id |-> DagNames[Len(group_in) + 1],
                                     tags |-> tags])
    /\ UNCHANGED <<group_out, outsideGroup>>

Group ==
    /\ group_out = None
    /\ group_out' = _group_dags_by_tags(group_in)
    /\ UNCHANGED <<group_in, outsideGroup>>

NextGroup ==
    \/ \E tags \in GroupTagsValues : AddDag(tags)
    \/ Group

SpecGroup == InitGroup /\ [][NextGroup]_vars

\* a tag of the form domain:X, as a string or as a {name} record
IsDomainItem(tag) ==
    \/ tag.type = "str" /\ startswith(tag.value, "domain:")
    \/ /\ tag.type = "dict"
       /\ dict_has(tag, "name")
       /\ dict_item(tag, "name").type = "str"
       /\ startswith(dict_item(tag, "name").value, "domain:")

ItemName(tag) ==
    IF tag.type = "str" THEN tag.value ELSE dict_item(tag, "name").value

DomainItems(dag) ==
    {i \in DOMAIN dag.tags.items : IsDomainItem(dag.tags.items[i])}

HasOneDomainTag(dag) ==
    dag.tags.type = "list" /\ Cardinality(DomainItems(dag)) = 1

\* the X of the one tag domain:X
DomainX(dag) ==
    LET name == ItemName(dag.tags.items[CHOOSE i \in DomainItems(dag) : TRUE])
    IN SubSeq(name, Len("domain:") + 1, Len(name))

\* the domains whose list holds the workflow
GroupsOf(dag) == {k \in DOMAIN group_out.lists : InSeq(dag, group_out.lists[k])}

-----------------------------------------------------------------------------
(* AirflowAPIClient.  A call suspends at every "await client.get(...)";    *)
(* the code between two awaits runs as one step.  The MWAA session         *)
(* refresh (_init_mwaa_session) is synchronous code and never suspends.    *)

MaxAttempts == 4                \* upstream attempts of one _make_request call
MaxLogins == 6                  \* MWAA logins over a behaviour

page_limit == 100               \* limit = 100 in get_all_dags

\* exceptions a gateway call can end with; json.JSONDecodeError is a
\* subclass of ValueError
IsValueError(e) == e \in {"ValueError", "JSONDecodeError"}

\* what the server answers to one GET of _make_request
RequestOutcomes == {"ok", "bad_json", "401", "500", "RequestError"}

\* _init_mwaa_session as called by _refresh_mwaa_session_if_needed: a new
\* cookie on success, ValueError when _get_mwaa_session_info returns None
LoginOutcomes == {"session", "no_session"}

\* the response to GET dags?limit=..&offset=..
dags_page(offset) ==
    [dags |-> [i \in 1..(IF airflow_total - offset > page_limit THEN page_limit
                         ELSE IF airflow_total > offset
                              THEN airflow_total - offset ELSE 0)
                 |-> offset + i],
     total_entries |-> airflow_total]

\* One upstream attempt of _make_request and what follows it up to the next
\* await: rq is the call's record, outcome the server's answer, login the
\* result of the session refresh should one be made.  Returns the record
\* and the session cookie.
make_request_attempt(rq, outcome, login, response) ==
    LET sent == [rq EXCEPT !.attempts = @ + 1]
        raised(e) == [rq |-> [sent EXCEPT !.pc = "raised", !.error = e],
                      cookie |-> mwaa_session_cookie]
    IN IF auth_type = "mwaa" /\ mwaa_session_cookie = 0
       THEN [rq |-> [rq EXCEPT !.pc = "raised", !.error = "ValueError"],
             cookie |-> mwaa_session_cookie]
       ELSE CASE outcome = "ok" ->
                    [rq |-> [sent EXCEPT !.pc = "returned",
                                         !.response = response],
                     cookie |-> mwaa_session_cookie]
              [] outcome = "bad_json" -> raised("JSONDecodeError")
              [] outcome = "RequestError" -> raised("RequestError")
              [] outcome = "500" -> raised("HTTPStatusError")
              [] outcome = "401" ->
                    IF auth_type = "mwaa"
                    THEN IF login = "session"
                         THEN \* refreshed; the recursive call awaits its GET
                              [rq |-> [sent EXCEPT !.refreshes = @ + 1],
                               cookie |-> mwaa_session_cookie + 1]
                         ELSE [rq |-> [sent EXCEPT !.pc = "raised",
                                                   !.refreshes = @ + 1,
                                                   !.error = "ValueError"],
                               cookie |-> mwaa_session_cookie]
                    ELSE raised("HTTPStatusError")

\* a fresh _make_request call, suspended at its first GET
new_request(caller, offset) ==
    [pc |-> "sending", caller |-> caller, offset |-> offset, attempts |-> 0,
     refreshes |-> 0, response |-> None, error |-> "none"]

AllIdle == req = Idle /\ dags_call = Idle /\ runs_call = Idle

\* AirflowAPIClient.__init__ has chosen a strategy and, for MWAA, logged in
InitGateway ==
    /\ auth_type \in {"token", "basic", "mwaa"}
    /\ mwaa_session_cookie = IF auth_type = "mwaa" THEN 1 ELSE 0
    /\ airflow_total \in {0, 1, 100, 101, 250}
    /\ req = Idle
    /\ dags_call = Idle
    /\ runs_call = Idle
    /\ CacheInit /\ use_redis = FALSE
    /\ DriverIdle
    /\ GroupIdle
    /\ ServiceIdle
    /\ ExtraIdle

\* a caller (get_dag_runs, test_connection, ...) calls _make_request
RequestStart ==
    /\ AllIdle
    /\ req' = new_request("direct", 0)
    /\ UNCHANGED <<clientVars, dags_call, runs_call, outsideGateway>>

\* the server answers the GET of a direct _make_request call
RequestAttempt(outcome, login) ==
    /\ req.pc = "sending" /\ req.caller = "direct"
    /\ req.attempts < MaxAttempts
    /\ outcome = "401" /\ auth_type = "mwaa" /\ login = "session"
          => mwaa_session_cookie < MaxLogins
    /\ LET r == make_request_attempt(req, outcome, login, [body |-> "json"])
       IN /\ req' = r.rq
          /\ mwaa_session_cookie' = r.cookie
    /\ UNCHANGED <<auth_type, airflow_total, dags_call, runs_call, outsideGateway>>

\* the caller takes the result of a finished call
RequestDone ==
    /\ req.pc \in {"returned", "raised"} /\ req.caller = "direct"
    /\ req' = Idle
    /\ UNCHANGED <<clientVars, dags_call, runs_call, outsideGateway>>

\* the loop exit test of get_all_dags as it would be with a strict comparison
last_page_strict(offset, total_entries) == offset > total_entries

\* "if offset >= total_entries: break"
last_page(offset, total_entries) == offset >= total_entries

\* AirflowAPIClient.get_all_dags up to its first await
DagsStart ==
    /\ AllIdle
    /\ dags_call' = [pc |-> "paging", offset |-> 0, all_dags |-> <<>>,
                     requests |-> <<0>>, result |-> None, error |-> "none"]
    /\ req' = new_request("dags", 0)
    /\ UNCHANGED <<clientVars, runs_call, outsideGateway>>

\* the body of the "while True" loop after _make_request returned response
dags_loop_body(dc, response) ==
    LET all_dags == dc.all_dags \o response.dags
        offset == dc.offset + page_limit
    IN IF last_page(offset, response.total_entries)
       THEN [dc EXCEPT !.pc = "returned", !.all_dags = all_dags,
                       !.offset = offset, !.result = all_dags]
       ELSE [dc EXCEPT !.all_dags = all_dags, !.offset = offset,
                       !.requests = Append(@, offset)]

\* the server answers the GET of the page request of get_all_dags
PageAttempt(outcome, login) ==
    /\ req.pc = "sending" /\ req.caller = "dags"
    /\ req.attempts < MaxAttempts
    /\ outcome = "401" /\ auth_type = "mwaa" /\ login = "session"
          => mwaa_session_cookie < MaxLogins
    /\ LET r == make_request_attempt(req, outcome, login, dags_page(req.offset))
       IN /\ mwaa_session_cookie' = r.cookie
          /\ CASE r.rq.pc = "returned" ->
                    LET dc == dags_loop_body(dags_call, r.rq.response)
                    IN /\ dags_call' = dc
                       /\ req' = IF dc.pc = "returned" THEN Idle
                                 ELSE new_request("dags", dc.offset)
               [] r.rq.pc = "raised" ->
                    /\ dags_call' = [dags_call EXCEPT !.pc = "raised",
                                                      !.error = r.rq.error]
                    /\ req' = Idle
               [] OTHER ->
                    /\ req' = r.rq
                    /\ UNCHANGED dags_call
    /\ UNCHANGED <<auth_type, airflow_total, runs_call, outsideGateway>>

DagsDone ==
    /\ dags_call.pc \in {"returned", "raised"}
    /\ dags_call' = Idle
    /\ UNCHANGED <<clientVars, req, runs_call, outsideGateway>>

-----------------------------------------------------------------------------
(* get_all_dag_runs_for_dags: one GET per id, gathered with                *)
(* return_exceptions=True, then reduced into the results dict.             *)

MaxIds == 2                     \* length of the dag_ids argument

RunDagIds == {"d1", "d2"}

Run(state) == [state |-> PyStr(state)]

FetchedRuns == {<<>>, <<Run("success")>>, <<Run("failed"), Run("success")>>}

\* what asyncio.gather hands back for one GET: an exception; a response
\* whose JSON body is a dict with dag_runs; a response (of any status) whose
\* JSON body is a dict without dag_runs; a body that is not JSON; a JSON body
\* that is not a dict; a response of status 401, whose body holds no dag_runs
RunResponses ==
    {[kind |-> "exception"], [kind |-> "no_dag_runs"], [kind |-> "not_json"],
     [kind |-> "not_dict"], [kind |-> "unauthorized"]}
    \cup {[kind |-> "dag_runs", dag_runs |-> runs] : runs \in FetchedRuns}

Pending == [kind |-> "pending"]

\* the entry of one response as it would be if a body that cannot be parsed
\* were stored as None instead of the empty list
run_entry_or_none(response) ==
    IF response.kind = "dag_runs" THEN response.dag_runs
    ELSE IF response.kind \in {"exception", "no_dag_runs", "unauthorized"}
         THEN <<>>
    ELSE None

\* the entry the reduce loop writes for one response
run_entry(response) ==
    IF response.kind = "exception" THEN <<>>
    ELSE IF response.kind = "dag_runs" THEN response.dag_runs
    ELSE IF response.kind = "no_dag_runs" THEN <<>>    \* data.get default
    ELSE IF response.kind = "unauthorized" THEN <<>>   \* no raise_for_status
    ELSE <<>>                                          \* except Exception

\* "for dag_id, response in zip(dag_ids, responses)"
RECURSIVE reduce_runs(_, _, _)
reduce_runs(results, dag_ids, responses) ==
    IF dag_ids = <<>> THEN results
    ELSE reduce_runs(Put(results, Head(dag_ids), run_entry(Head(responses))),
                     Tail(dag_ids), Tail(responses))

\* the call creates its GETs and suspends in asyncio.gather
RunsStart(dag_ids) ==
    /\ AllIdle
    /\ runs_call' = [pc |-> "gathering", dag_ids |-> dag_ids,
                     responses |-> [i \in DOMAIN dag_ids |-> Pending],
                     results |-> None]
    /\ UNCHANGED <<clientVars, req, dags_call, outsideGateway>>

\* one of the GETs in flight completes or fails
RunsComplete(i, response) ==
    /\ runs_call.pc = "gathering"
    /\ i \in DOMAIN runs_call.responses
    /\ runs_call.responses[i] = Pending
    /\ runs_call' = [runs_call EXCEPT !.responses[i] = response]
    /\ UNCHANGED <<clientVars, req, dags_call, outsideGateway>>

\* asyncio.gather as it would be if it returned with the first GET done
gather_returns_first_completed(responses) ==
    \/ responses = <<>>
    \/ \E i \in DOMAIN responses : responses[i] # Pending

\* asyncio.gather(*tasks, return_exceptions=True) returns: every GET has
\* completed or failed
gather_returns(responses) ==
    \A i \in DOMAIN responses : responses[i] # Pending

\* gather returns once every GET is done; the reduce loop builds results
RunsReduce ==
    /\ runs_call.pc = "gathering"
    /\ gather_returns(runs_call.responses)
    /\ runs_call' = [runs_call EXCEPT
                        !.pc = "returned",
                        !.results = reduce_runs(EmptyMap, runs_call.dag_ids,
                                                runs_call.responses)]
    /\ UNCHANGED <<clientVars, req, dags_call, outsideGateway>>

RunsDone ==
    /\ runs_call.pc = "returned"
    /\ runs_call' = Idle
    /\ UNCHANGED <<clientVars, req, dags_call, outsideGateway>>

NextGateway ==
    \/ RequestStart
    \/ \E outcome \in RequestOutcomes, login \in LoginOutcomes :
          RequestAttempt(outcome, login)
    \/ RequestDone
    \/ DagsStart
    \/ \E outcome \in RequestOutcomes, login \in LoginOutcomes :
          PageAttempt(outcome, login)
    \/ DagsDone
    \/ \E dag_ids \in SeqsUpTo(RunDagIds, MaxIds) : RunsStart(dag_ids)
    \/ \E i \in 1..MaxIds, response \in RunResponses :
          RunsComplete(i, response)
    \/ RunsReduce
    \/ RunsDone

SpecGateway == InitGateway /\ [][NextGateway]_vars

-----------------------------------------------------------------------------
(* Claims on the gateway *)

LastFor(dag_ids, i) ==
    \A j \in DOMAIN dag_ids : dag_ids[j] = dag_ids[i] => j <= i

\* C8: get_all_dag_runs_for_dags returns a dict with an entry for every
\* requested id; the id of a request that raised or whose body could not be
\* parsed maps to the empty list, every other id to the runs fetched for it.
C8_EveryIdHasEntry ==
    runs_call.pc = "returned" =>
        /\ DOMAIN runs_call.results =
              {runs_call.dag_ids[i] : i \in DOMAIN runs_call.dag_ids}
        /\ \A i \in DOMAIN runs_call.dag_ids :
              LastFor(runs_call.dag_ids, i) =>
                 runs_call.results[runs_call.dag_ids[i]] =
                    IF runs_call.responses[i].kind = "dag_runs"
                    THEN runs_call.responses[i].dag_runs
                    ELSE <<>>

\* a returned call in which one request raised, and the other id kept runs
C8_Witness ==
    /\ runs_call.pc = "returned"
    /\ runs_call.dag_ids = <<"d1", "d2">>
    /\ runs_call.responses[1].kind \in {"exception", "not_json"}
    /\ runs_call.results["d1"] = <<>>
    /\ runs_call.results["d2"] = <<Run("failed"), Run("success")>>

Max(a, b) == IF a >= b THEN a ELSE b
CeilDiv(a, b) == (a + b - 1) \div b

\* C9: get_all_dags requests the offsets 0, 100, 200, ... and stops when the
\* offset reaches total_entries: it makes max(1, ceil(total_entries/100))
\* page requests and returns the pages concatenated in request order; when
\* a page request fails the call fails and returns no list.
C9_Pagination ==
    /\ dags_call.pc # "idle" =>
          dags_call.requests =
             [i \in 1..Len(dags_call.requests) |-> (i - 1) * page_limit]
    /\ dags_call.pc = "returned" =>
          /\ Len(dags_call.requests) =
                Max(1, CeilDiv(airflow_total, page_limit))
          /\ dags_call.result = [i \in 1..airflow_total |-> i]
    /\ dags_call.pc = "raised" => dags_call.result = None

\* 250 listed DAGs fetched with three page requests
C9_Witness ==
    /\ dags_call.pc = "returned"
    /\ airflow_total = 250
    /\ dags_call.requests = <<0, 100, 200>>
    /\ Len(dags_call.result) = 250

-----------------------------------------------------------------------------
(* C3 on the cache driven directly *)

\* C3 as stated: a get after set(k, v, ttl) returns v until ttl seconds have
\* elapsed since that set, and absent from then on.  The value is compared
\* as the JSON document it serializes to, which is what the Redis backend
\* hands back (a datetime comes back as text).
C3_AsStated ==
    (cache_op.op = "get" /\ last_set[cache_op.key] # None) =>
        LET s == last_set[cache_op.key]
        IN IF now - s.at >= effective_ttl(s.ttl)
           THEN cache_op.ret = None
           ELSE JsonRoundTrip(cache_op.ret) = JsonRoundTrip(s.value)

-----------------------------------------------------------------------------
(* HealthService: the aggregation of runs into summaries *)

UpperCase == "ABCDEFGHIJKLMNOPQRSTUVWXYZ"
LowerCase == "abcdefghijklmnopqrstuvwxyz"
\* the characters of the keys, in code point order
Alphabet == " 0123456789:" \o UpperCase \o "_" \o LowerCase

\* the lower-case letter of every upper-case letter
LowerOf ==
    [c \in {CharAt(UpperCase, i) : i \in 1..Len(UpperCase)} |->
        CharAt(LowerCase,
               CHOOSE i \in 1..Len(UpperCase) : CharAt(UpperCase, i) = c)]

\* str.lower
RECURSIVE lower(_)
lower(s) ==
    IF s = "" THEN ""
    ELSE LET c == CharAt(s, 1)
         IN (IF c \in DOMAIN LowerOf THEN LowerOf[c] ELSE c)
            \o lower(SubSeq(s, 2, Len(s)))

CodePoint(c) == CHOOSE i \in 1..Len(Alphabet) : CharAt(Alphabet, i) = c

\* a < b on str
RECURSIVE str_less(_, _)
str_less(a, b) ==
    IF b = "" THEN FALSE
    ELSE IF a = "" THEN TRUE
    ELSE IF CharAt(a, 1) = CharAt(b, 1)
         THEN str_less(SubSeq(a, 2, Len(a)), SubSeq(b, 2, Len(b)))
    ELSE CodePoint(CharAt(a, 1)) < CodePoint(CharAt(b, 1))

\* (flag_a, name_a) < (flag_b, name_b) with False < True
key_less(flag_a, name_a, flag_b, name_b) ==
    IF flag_a # flag_b THEN flag_b ELSE str_less(name_a, name_b)

\* the state a run is counted under: run.get("state", ""), None as "",
\* lowered; a run that is None is skipped
run_state(run) ==
    IF "state" \in DOMAIN run /\ run.state # None THEN lower(run.state.value)
    ELSE ""

\* the count as it would be if the state were compared without lowering it
RECURSIVE count_state_exact(_, _)
count_state_exact(runs, state) ==
    IF runs = <<>> THEN 0
    ELSE (IF Head(runs) # None /\ "state" \in DOMAIN Head(runs)
             /\ Head(runs).state = PyStr(state) THEN 1 ELSE 0)
         + count_state_exact(Tail(runs), state)

RECURSIVE count_state(_, _)
count_state(runs, state) ==
    IF runs = <<>> THEN 0
    ELSE (IF Head(runs) # None /\ run_state(Head(runs)) = state THEN 1 ELSE 0)
         + count_state(Tail(runs), state)

\* count_runs as it would be if total_runs were incremented before the
\* test "run is None"
count_runs_with_none(runs) == Len(runs)

RECURSIVE count_runs(_)
count_runs(runs) ==
    IF runs = <<>> THEN 0
    ELSE (IF Head(runs) # None THEN 1 ELSE 0) + count_runs(Tail(runs))

\* sum of f over the values of the dict all_runs
RECURSIVE sum_over(_, _, _)
sum_over(all_runs, ids, state) ==
    IF ids = {} THEN 0
    ELSE LET id == CHOOSE x \in ids : TRUE
         IN (IF state = "*" THEN count_runs(all_runs[id])
             ELSE count_state(all_runs[id], state))
            + sum_over(all_runs, ids \ {id}, state)

\* health_score as it would be if an empty window scored 0
health_score_zero_when_empty(total_success, total_runs) ==
    IF total_runs > 0 THEN (total_success * 10000) \div total_runs ELSE 0

\* round((total_success / total_runs) * 100, 2) in hundredths of a percent,
\* ties to the even hundredth
health_score(total_success, total_runs) ==
    IF total_runs > 0
    THEN LET n == total_success * 10000
             q == n \div total_runs
             r2 == 2 * (n % total_runs)
         IN IF r2 > total_runs \/ (r2 = total_runs /\ q % 2 = 1)
            THEN q + 1 ELSE q
    ELSE 10000

\* HealthService._build_domain_summary, given the dict that
\* get_all_dag_runs_for_dags returned for the domain's dag ids
_build_domain_summary(tag, dags, all_runs, t) ==
    LET ids == DOMAIN all_runs
        total_runs == sum_over(all_runs, ids, "*")
        total_failed == sum_over(all_runs, ids, "failed")
        total_success == sum_over(all_runs, ids, "success")
    IN [domain_tag |-> tag,
        total_dags |-> Len(dags),
        total_runs |-> total_runs,
        failed_count |-> total_failed,
        success_count |-> total_success,
        running_count |-> sum_over(all_runs, ids, "running"),
        queued_count |-> sum_over(all_runs, ids, "queued"),
        has_failures |-> total_failed > 0,
        health_score |-> health_score(total_success, total_runs),
        last_updated |-> DateTime(t)]

DagRunStates == {"success", "failed", "running", "queued"}

\* run.get("execution_date"); an ISO text is [type |-> "str", at |-> t]
execution_date(run) ==
    IF "execution_date" \in DOMAIN run THEN run.execution_date ELSE None

\* datetime.fromisoformat(exec_date.replace("Z", "+00:00"))
fromisoformat(exec_date) == DateTime(exec_date.at)

\* the greatest execution date of the runs, None if no run carries one
RECURSIVE last_run_date_latest(_)
last_run_date_latest(runs) ==
    IF runs = <<>> THEN None
    ELSE LET rest == last_run_date_latest(Tail(runs))
             run == Head(runs)
         IN IF run = None \/ execution_date(run) \in {None, PyStr("")}
            THEN rest
            ELSE IF rest = None \/ rest.at < execution_date(run).at
                 THEN fromisoformat(execution_date(run))
                 ELSE rest

\* last_run_date after the loop: set at i == 0 if the first run is not None
\* and its execution_date is truthy
last_run_date(runs) ==
    IF runs # <<>> /\ Head(runs) # None
       /\ execution_date(Head(runs)) \notin {None, PyStr("")}
    THEN fromisoformat(execution_date(Head(runs)))
    ELSE None

\* HealthService._build_dag_summary_from_runs
_build_dag_summary_from_runs(dag, runs) ==
    [dag_id |-> dag.dag_id,
     total_runs |-> Len(runs),
     failed_count |-> count_state(runs, "failed"),
     success_count |-> count_state(runs, "success"),
     running_count |-> count_state(runs, "running"),
     queued_count |-> count_state(runs, "queued"),
     last_run_state |->
        IF runs # <<>> /\ Head(runs) # None
           /\ run_state(Head(runs)) \in DagRunStates
        THEN PyStr(run_state(Head(runs))) ELSE None,
     last_run_date |-> last_run_date(runs)]

\* list.sort(key=...) as a stable insertion sort over the items paired with
\* their keys (flag, name)
RECURSIVE insert_sorted(_, _)
insert_sorted(sorted, x) ==
    IF sorted = <<>> THEN <<x>>
    ELSE IF key_less(x.flag, x.name, Head(sorted).flag, Head(sorted).name)
         THEN <<x>> \o sorted
         ELSE <<Head(sorted)>> \o insert_sorted(Tail(sorted), x)

RECURSIVE sort_keyed(_)
sort_keyed(keyed) ==
    IF keyed = <<>> THEN <<>>
    ELSE insert_sorted(sort_keyed(SubSeq(keyed, 1, Len(keyed) - 1)),
                       keyed[Len(keyed)])

\* the domain summaries sorted by domain key alone
sort_domains_by_name(summaries) ==
    LET sorted == sort_keyed([i \in DOMAIN summaries |->
                                [flag |-> FALSE,
                                 name |-> summaries[i].domain_tag,
                                 item |-> summaries[i]]])
    IN [i \in DOMAIN sorted |-> sorted[i].item]

\* domain_summaries.sort(key=lambda x: (not x.has_failures, x.domain_tag))
sort_domains(summaries) ==
    LET sorted == sort_keyed([i \in DOMAIN summaries |->
                                [flag |-> ~summaries[i].has_failures,
                                 name |-> summaries[i].domain_tag,
                                 item |-> summaries[i]]])
    IN [i \in DOMAIN sorted |-> sorted[i].item]

\* dag_summaries.sort(key=lambda x: (x.failed_count == 0, x.dag_id))
sort_dags(summaries) ==
    LET sorted == sort_keyed([i \in DOMAIN summaries |->
                                [flag |-> summaries[i].failed_count = 0,
                                 name |-> summaries[i].dag_id,
                                 item |-> summaries[i]]])
    IN [i \in DOMAIN sorted |-> sorted[i].item]

-----------------------------------------------------------------------------
(* HealthService: the responses and what the calls decide *)

\* DashboardResponse(...).model_dump()
DashboardResponse(time_range, dags, domain_summaries, t) ==
    [time_range |-> time_range,
     domains |-> sort_domains(domain_summaries),
     total_domains |-> Len(domain_summaries),
     total_dags |-> Len(dags),
     last_updated |-> DateTime(t)]

\* DomainDetailResponse(...).model_dump()
DomainDetailResponse(domain_tag, time_range, summary, dag_summaries, t) ==
    [domain_tag |-> domain_tag,
     time_range |-> time_range,
     summary |-> summary,
     dags |-> sort_dags(dag_summaries),
     last_updated |-> DateTime(t)]

\* pydantic reads a datetime field given as ISO text back into a datetime
parse_datetime(x) == IF x.type = "str" THEN DateTime(x.at) ELSE x

\* DashboardResponse(**data) / DomainDetailResponse(**data) of a cached dict
model_validate(data) ==
    [f \in DOMAIN data |->
        IF f = "last_updated" THEN parse_datetime(data[f])
        ELSE IF f = "domains"
             THEN [i \in DOMAIN data[f] |->
                     [data[f][i] EXCEPT !.last_updated = parse_datetime(@)]]
        ELSE IF f = "summary"
             THEN [data[f] EXCEPT !.last_updated = parse_datetime(@)]
        ELSE data[f]]

\* "Try cache first (unless force refresh is requested)" with the lookup
\* made for every request
cache_first_always(force_refresh) == TRUE

\* "Try cache first (unless force refresh is requested)": if not force_refresh
cache_first(force_refresh) == ~force_refresh

\* ValueError(f"No DAGs found for domain tag: {domain_tag}")
NoDagsFound == "ValueError: No DAGs found"

\* the handler "except ValueError" of get_domain_detail catching nothing
except_value_error_never(e) == FALSE

\* what "except ValueError" of get_domain_detail catches: the ValueError it
\* raised itself and every ValueError raised below it
except_value_error(e) == e = NoDagsFound \/ IsValueError(e)

\* tag_names of the filter loop of get_domain_detail: only a list is read
detail_tag_names(tags) ==
    IF tags.type = "list" THEN list_tag_names(tags.items) ELSE <<>>

\* any(tag_name.startswith("domain:") for tag_name in tag_names): "true",
\* "false", or "AttributeError" when a name that is not a string is reached
RECURSIVE any_domain_name(_)
any_domain_name(tag_names) ==
    IF tag_names = <<>> THEN "false"
    ELSE IF ~IsStr(Head(tag_names)) THEN "AttributeError"
    ELSE IF startswith(Head(tag_names).value, "domain:") THEN "true"
    ELSE any_domain_name(Tail(tag_names))

\* whether the filter loop appends the workflow
dag_matches(dag, domain_tag) ==
    LET tag_names == detail_tag_names(dag.tags)
    IN IF domain_tag = "untagged"
       THEN LET has_domain_tag == any_domain_name(tag_names)
            IN IF has_domain_tag = "true" THEN "false"
               ELSE IF has_domain_tag = "false" THEN "true"
               ELSE has_domain_tag
       ELSE IF InSeq(PyStr("domain:" \o domain_tag), tag_names)
            THEN "true" ELSE "false"

\* the loop "Filter DAGs that have this domain tag" of get_domain_detail
RECURSIVE filter_domain_dags(_, _)
filter_domain_dags(all_dags, domain_tag) ==
    IF all_dags = <<>> THEN [error |-> "none", dags |-> <<>>]
    ELSE LET matches == dag_matches(Head(all_dags), domain_tag)
         IN IF matches = "AttributeError"
            THEN [error |-> matches, dags |-> <<>>]
            ELSE LET rest == filter_domain_dags(Tail(all_dags), domain_tag)
                 IN IF rest.error # "none" THEN rest
                    ELSE [error |-> "none",
                          dags |-> (IF matches = "true"
                                    THEN <<Head(all_dags)>> ELSE <<>>)
                                   \o rest.dags]

\* [dag["dag_id"] for dag in dags], as the set of keys of the runs dict
dag_ids(dags) == {dags[i].dag_id : i \in DOMAIN dags}

\* failed_runs of get_failure_analysis: the runs in state failed
RECURSIVE failed_runs(_)
failed_runs(runs) ==
    IF runs = <<>> THEN <<>>
    ELSE (IF Head(runs) # None /\ run_state(Head(runs)) = "failed"
          THEN <<Head(runs)>> ELSE <<>>)
         \o failed_runs(Tail(runs))

\* the "Get domain tag" loop of get_failure_analysis over a list of tags
\* whose names are strings: the first name that starts with "domain:"
RECURSIVE analysis_domain(_)
analysis_domain(items) ==
    IF items = <<>> THEN "untagged"
    ELSE LET tag == Head(items)
             tag_name == IF tag.type = "str" THEN tag.value
                         ELSE IF dict_has(tag, "name")
                              THEN dict_item(tag, "name").value
                         ELSE ""
         IN IF startswith(tag_name, "domain:")
            THEN strip(split_colon_1(tag_name))
            ELSE analysis_domain(Tail(items))

\* failed_dags of get_failure_analysis
RECURSIVE failed_dags(_, _)
failed_dags(all_dags, all_runs) ==
    IF all_dags = <<>> THEN <<>>
    ELSE LET dag == Head(all_dags)
             failed == failed_runs(all_runs[dag.dag_id])
         IN (IF failed # <<>>
             THEN <<[dag_id |-> dag.dag_id,
                     domain_tag |-> IF dag.tags.type = "list"
                                    THEN analysis_domain(dag.tags.items)
                                    ELSE "untagged",
                     failed_count |-> Len(failed)]>>
             ELSE <<>>)
            \o failed_dags(Tail(all_dags), all_runs)

RECURSIVE sum_failed_count(_)
sum_failed_count(failed) ==
    IF failed = <<>> THEN 0
    ELSE Head(failed).failed_count + sum_failed_count(Tail(failed))

\* the dict result of get_failure_analysis; llm_ok tells whether
\* analyze_failures returned or the fallback summary was built, the log
\* texts are left out
analysis_result(time_range, all_dags, failed, llm_ok, t) ==
    [llm_analysis |-> IF llm_ok THEN "analysis" ELSE "fallback",
     failed_dags |-> failed,
     time_range |-> time_range,
     total_failed_dags |-> Len(failed),
     total_failed_runs |-> sum_failed_count(failed),
     total_analyzed_dags |-> Len(all_dags),
     generated_at |-> DateStr(t)]

\* the cache keys of a call
cache_key(c) ==
    IF c.op = "dashboard" THEN dashboard_key(c.time_range)
    ELSE IF c.op = "domain" THEN domain_key(c.domain_tag, c.time_range)
    ELSE analysis_key(c.time_range)

fallback_cache_key(c) ==
    IF c.op = "dashboard" THEN dashboard_fallback_key(c.time_range)
    ELSE domain_fallback_key(c.domain_tag, c.time_range)

\* "Try to return fallback cached data", with the primary entry written
\* again from the fallback entry
fallback_lookup_repopulating(cs, t, c) ==
    LET looked == get(cs, t, fallback_cache_key(c))
    IN IF looked.ret # None
       THEN [ret |-> looked.ret,
             cs |-> set(looked.cs, t, cache_key(c), looked.ret, 0)]
       ELSE looked

\* "Try to return fallback cached data": cache.get(fallback_cache_key)
fallback_lookup(cs, t, c) == get(cs, t, fallback_cache_key(c))

\* what cache.get answers for every key, expired entries being absent
View(cs, t) == [k \in Keys |-> get(cs, t, k).ret]

-----------------------------------------------------------------------------
(* SpecService: HealthService over the cache and a gateway whose calls     *)
(* return or raise.  A call advances by one step per await; the clock and  *)
(* the upstream listing may change between two steps.                      *)

MaxCalls == 2                   \* calls started in a behaviour

dag_a == [dag_id |-> "d1", tags |-> PyList(<<PyStr("domain:a")>>)]
dag_u == [dag_id |-> "d2", tags |-> PyList(<<PyStr("team")>>)]

\* what the Airflow server may list
Listings == {<<dag_u>>, <<dag_a, dag_u>>}

\* the runs the gateway returns for a workflow
ServiceRuns == {<<Run("failed"), Run("success")>>}

ServiceOps == {"dashboard", "domain", "analysis"}

\* what get_all_dags may raise
UpstreamErrors ==
    {"HTTPStatusError", "RequestError", "JSONDecodeError", "ValueError"}

InitService ==
    /\ CacheInit
    /\ DriverIdle
    /\ GroupIdle
    /\ GatewayIdle
    /\ airflow_dags \in Listings
    /\ call = Idle
    /\ result = NoResult
    /\ history = NoHistory
    /\ ExtraIdle

\* the call as it is once its primary lookup has missed or was skipped
NewCall(op, domain_tag, force_refresh) ==
    [pc |-> "list", op |-> op, domain_tag |-> domain_tag,
     time_range |-> "24h", force_refresh |-> force_refresh,
     primary_at_start |->
        View(CacheState, now)[
            IF op = "dashboard" THEN dashboard_key("24h")
            ELSE IF op = "domain" THEN domain_key(domain_tag, "24h")
            ELSE analysis_key("24h")] # None,
     dags |-> <<>>, groups |-> EmptyGroups, pending |-> <<>>,
     summaries |-> <<>>, domain_dags |-> <<>>, dag_summaries |-> <<>>,
     failed |-> <<>>]

\* the call ends: it returned payload taken from src, or raised error, or
\* was cancelled; cs is the cache it leaves
End(c, outcome, src, error, payload, listed, cs) ==
    /\ StoreCache(cs)
    /\ call' = Idle
    /\ result' =
          [op |-> c.op, domain_tag |-> c.domain_tag,
           time_range |-> c.time_range,
           force_refresh |-> c.force_refresh,
           outcome |-> outcome, src |-> src, error |-> error,
           payload |-> payload, listed |-> listed,
           primary_at_start |-> c.primary_at_start,
           members |-> c.domain_dags # <<>>,
           built |-> Len(c.summaries),
           fallback_at_end |->
              IF c.op = "analysis" THEN None
              ELSE View(CacheState, now)[fallback_cache_key(c)],
           cache_changed |-> cs # CacheState,
           view_changed |-> View(cs, now) # View(CacheState, now)]

\* the call goes on to its next await
Continue ==
    /\ result' = NoResult
    /\ UNCHANGED <<memory_cache, cache_timestamps, redis_db, history>>

\* the response cached under the primary key only
Complete_primary_only(c, response) ==
    LET cached == set(CacheState, now, cache_key(c), response, 0)
    IN /\ End(c, "returned", "live", "none", response, TRUE, cached)
       /\ history' = [history EXCEPT !.last_success[cache_key(c)] = now]

\* "Cache the response with normal TTL", "Also save as fallback with
\* longer TTL (1 hour)", return response
Complete(c, response) ==
    LET cached == set(CacheState, now, cache_key(c), response, 0)
        both == set(cached, now, fallback_cache_key(c), response, FallbackTtl)
    IN /\ End(c, "returned", "live", "none", response, TRUE, both)
       /\ history' = [history EXCEPT
                         !.last_success[cache_key(c)] = now,
                         !.last_success[fallback_cache_key(c)] = now]

\* the handlers of an exception e raised inside the try block
Fail(c, e) ==
    /\ history' = IF e = NoDagsFound
                  THEN [history EXCEPT !.not_found = @ \cup {c.domain_tag}]
                  ELSE history
    /\ IF c.op = "analysis" \/ (c.op = "domain" /\ except_value_error(e))
       THEN End(c, "raised", "none", e, None, TRUE, CacheState)
       ELSE LET looked == fallback_lookup(CacheState, now, c)
            IN IF looked.ret # None
               THEN End(c, "returned", "fallback", e,
                        model_validate(looked.ret), TRUE, looked.cs)
               ELSE End(c, "raised", "none", e, None, TRUE, looked.cs)

\* a call starts: the primary lookup, and on a hit the return of the
\* cached dict stamped with the retrieval time.  The in-process backend
\* hands out the stored dict itself, so the stamp lands in the cache.
ServiceStart(op, domain_tag, force_refresh) ==
    /\ call = Idle
    /\ history.calls < MaxCalls
    /\ op = "analysis" => ~force_refresh
    /\ history' = [history EXCEPT !.calls = @ + 1]
    /\ LET c == NewCall(op, domain_tag, force_refresh)
           looked == IF op = "analysis" \/ cache_first(force_refresh)
                     THEN get(CacheState, now, cache_key(c))
                     ELSE [ret |-> None, cs |-> CacheState]
       IN IF looked.ret # None
          THEN IF op = "analysis"
               THEN End(c, "returned", "primary", "none", looked.ret, FALSE,
                        looked.cs)
               ELSE LET cached_data == [looked.ret EXCEPT
                                           !.last_updated = DateStr(now)]
                    IN End(c, "returned", "primary", "none",
                           model_validate(cached_data), FALSE,
                           IF use_redis THEN looked.cs
                           ELSE [looked.cs EXCEPT
                                    !.memory_cache[cache_key(c)] =
                                        cached_data])
          ELSE /\ StoreCache(looked.cs)
               /\ call' = c
               /\ result' = NoResult
    /\ UNCHANGED <<use_redis, now, cache_op, airflow_dags, outsideService>>

\* get_all_dags returned the listing
ListOk ==
    /\ call.pc = "list"
    /\ LET dags == airflow_dags
       IN CASE call.op = "dashboard" ->
                  LET groups == _group_dags_by_tags(dags)
                  IN IF groups.keys = <<>>
                     THEN Complete(call,
                              DashboardResponse(call.time_range, dags, <<>>,
                                                now))
                     ELSE /\ call' = [call EXCEPT !.pc = "runs",
                                                  !.dags = dags,
                                                  !.groups = groups,
                                                  !.pending = groups.keys]
                          /\ Continue
            [] call.op = "domain" ->
                  LET found == filter_domain_dags(dags, call.domain_tag)
                  IN IF found.error # "none" THEN Fail(call, found.error)
                     ELSE IF found.dags = <<>> THEN Fail(call, NoDagsFound)
                     ELSE /\ call' = [call EXCEPT !.pc = "runs",
                                                  !.dags = dags,
                                                  !.domain_dags = found.dags]
                          /\ Continue
            [] call.op = "analysis" ->
                  /\ call' = [call EXCEPT !.pc = "runs", !.dags = dags]
                  /\ Continue
    /\ UNCHANGED <<use_redis, now, cache_op, airflow_dags, outsideService>>

\* get_all_dags raised e
ListError(e) ==
    /\ call.pc = "list"
    /\ Fail(call, e)
    /\ UNCHANGED <<use_redis, now, cache_op, airflow_dags, outsideService>>

\* the workflows whose runs the call is waiting for
FetchDags ==
    IF call.op = "dashboard" THEN call.groups.lists[Head(call.pending)]
    ELSE IF call.op = "domain" THEN call.domain_dags
    ELSE call.dags

\* what the call does with the dict all_runs that
\* get_all_dag_runs_for_dags returned
RunsReturn(all_runs) ==
          CASE call.op = "dashboard" ->
                  LET tag == Head(call.pending)
                      summaries ==
                          Append(call.summaries,
                                 _build_domain_summary(
                                     tag, call.groups.lists[tag], all_runs,
                                     now))
                  IN IF Len(call.pending) = 1
                     THEN Complete(call,
                              DashboardResponse(call.time_range, call.dags,
                                                summaries, now))
                     ELSE /\ call' = [call EXCEPT !.pending = Tail(@),
                                                  !.summaries = summaries]
                          /\ Continue
            [] call.op = "domain" /\ call.pc = "runs" ->
                  /\ call' = [call EXCEPT
                        !.pc = "summary",
                        !.dag_summaries =
                            [i \in DOMAIN call.domain_dags |->
                                _build_dag_summary_from_runs(
                                    call.domain_dags[i],
                                    all_runs[call.domain_dags[i].dag_id])]]
                  /\ Continue
            [] call.op = "domain" /\ call.pc = "summary" ->
                  Complete(call,
                      DomainDetailResponse(
                          call.domain_tag, call.time_range,
                          _build_domain_summary(call.domain_tag,
                                                call.domain_dags, all_runs,
                                                now),
                          call.dag_summaries, now))
            [] call.op = "analysis" ->
                  /\ call' = [call EXCEPT
                                 !.pc = "analyze",
                                 !.failed = failed_dags(call.dags, all_runs)]
                  /\ Continue

\* get_all_dag_runs_for_dags returned all_runs
RunsFetched ==
    /\ call.pc \in {"runs", "summary"}
    /\ \E all_runs \in [dag_ids(FetchDags) -> ServiceRuns] :
          RunsReturn(all_runs)
    /\ UNCHANGED <<use_redis, now, cache_op, airflow_dags, outsideService>>

\* the logs are fetched and analyze_failures returns (llm_ok) or raises;
\* the result is cached for 5 minutes and returned
Analyzed(llm_ok) ==
    /\ call.pc = "analyze"
    /\ LET analysis == analysis_result(call.time_range, call.dags,
                                       call.failed, llm_ok, now)
       IN End(call, "returned", "live", "none", analysis, TRUE,
              set(CacheState, now, cache_key(call), analysis, AnalysisTtl))
    /\ history' = [history EXCEPT !.last_success[cache_key(call)] = now]
    /\ UNCHANGED <<use_redis, now, cache_op, airflow_dags, outsideService>>

\* the task running the call is cancelled at the await it is suspended in
Cancel ==
    /\ call.pc # "idle"
    /\ End(call, "cancelled", "none", "CancelledError", None, TRUE,
           CacheState)
    /\ UNCHANGED <<use_redis, now, cache_op, airflow_dags, history,
                   outsideService>>

\* the Airflow server lists other workflows from now on
UpstreamChange(listing) ==
    /\ call = Idle
    /\ listing # airflow_dags
    /\ airflow_dags' = listing
    /\ result' = NoResult
    /\ UNCHANGED <<cacheVars, cache_op, call, history, outsideService>>

NextService ==
    \/ \E op \in ServiceOps, domain_tag \in DomainTags,
          force_refresh \in BOOLEAN :
          ServiceStart(op, domain_tag, force_refresh)
    \/ ListOk
    \/ \E e \in UpstreamErrors : ListError(e)
    \/ RunsFetched
    \/ \E llm_ok \in BOOLEAN : Analyzed(llm_ok)
    \/ Cancel
    \/ \E listing \in Listings : UpstreamChange(listing)
    \/ \E d \in TickSteps : Tick(d)

SpecService == InitService /\ [][NextService]_vars

-----------------------------------------------------------------------------
(* C1, C2, C4, C5, C6 on the service *)

\* C1 as stated: when the live aggregation of get_dashboard_data or
\* get_domain_detail fails with an upstream error, the call returns the
\* fallback entry of its key if the cache holds one, and raises the error
\* if it holds none.
C1_AsStated ==
    (/\ result.outcome \in {"returned", "raised"}
     /\ result.op \in {"dashboard", "domain"}
     /\ result.error \in UpstreamErrors) =>
        IF result.fallback_at_end # None
        THEN /\ result.outcome = "returned"
             /\ result.src = "fallback"
             /\ result.payload = model_validate(result.fallback_at_end)
        ELSE /\ result.outcome = "raised"

FallbackKeys ==
    {dashboard_fallback_key(tr) : tr \in TimeRanges}
    \cup {domain_fallback_key(d, tr) : d \in DomainTags, tr \in TimeRanges}

\* C2 as stated: a fallback entry written by a successful aggregation can be
\* retrieved during the 3600 seconds that follow, on either backend, so an
\* upstream failure in that period is answered from it.
C2_AsStated ==
    /\ \A k \in FallbackKeys :
          (/\ history.last_success[k] >= 0
           /\ now - history.last_success[k] < FallbackTtl) =>
              View(CacheState, now)[k] # None
    /\ (/\ result.outcome \in {"returned", "raised"}
        /\ result.op \in {"dashboard", "domain"}
        /\ result.error \in UpstreamErrors
        /\ history.last_success[fallback_cache_key(result)] >= 0
        /\ now - history.last_success[fallback_cache_key(result)]
              < FallbackTtl) =>
           result.src = "fallback"

C5_NotFound ==
    /\ (result.outcome # "none" /\ result.error = NoDagsFound) =>
          /\ result.outcome = "raised"
          /\ result.src = "none"
          /\ ~result.cache_changed
          /\ ~result.view_changed
    /\ (/\ result.outcome \in {"returned", "raised"}
        /\ result.op = "domain"
        /\ result.members) =>
          /\ result.outcome = "returned"
          /\ result.src = "live"
          /\ result.payload.domain_tag = result.domain_tag

\* the domain was not found while its fallback entry was in the cache
C5_Witness ==
    /\ result.outcome = "raised"
    /\ result.error = NoDagsFound
    /\ result.fallback_at_end # None

\* C6: a step of a call changes what the cache answers only when it ends a
\* live aggregation with a complete response, and then only the keys of
\* that call, which hold the response returned (a primary hit stamps its
\* own entry and is not a live aggregation).  So a call that fails or is
\* cancelled has written nothing at any step.
C6_NoPartialWrite ==
    [][(/\ now' = now
        /\ <<memory_cache, cache_timestamps, redis_db>>'
              # <<memory_cache, cache_timestamps, redis_db>>
        /\ View(CacheState, now)' # View(CacheState, now)) =>
           /\ result'.outcome = "returned"
           /\ result'.src \in {"live", "primary"}
           /\ result'.src = "live" =>
                 \A k \in Keys :
                    View(CacheState, now)'[k] # View(CacheState, now)[k] =>
                       /\ \/ k = cache_key(result')
                          \/ /\ result'.op # "analysis"
                             /\ k = fallback_cache_key(result')
                       /\ JsonRoundTrip(View(CacheState, now)'[k])
                             = JsonRoundTrip(result'.payload)]_vars

\* a dashboard call was cancelled after it had built a domain summary, and
\* a call failed on the listing, with entries in the cache
C6_Witness ==
    /\ result.outcome \in {"raised", "cancelled"}
    /\ result.outcome = "cancelled" => result.built > 0
    /\ \E k \in Keys : View(CacheState, now)[k] # None
    /\ ~result.view_changed

-----------------------------------------------------------------------------
(* SpecSummary: the dashboard aggregation of get_dashboard_data applied to *)
(* bounded listings and the runs of their workflows                        *)

MaxAggDags == 3                 \* workflows in the aggregated listing

AggTags ==
    {None,
     PyList(<<PyStr("domain:finance")>>),
     PyList(<<PyStr("Finance")>>),
     PyList(<<PyStr("Marketing")>>)}

\* the run lists a workflow may have: runs in the four states, a null run
\* and a run whose state is null
AggRuns ==
    {<<>>,
     <<Run("success")>>,
     <<Run("success"), Run("failed")>>,
     <<None, [state |-> None], Run("running"), Run("queued")>>}

\* the listed workflows: every run list for the workflows without tags and
\* with a domain tag, one run list for the workflows with a plain tag
AggWorkflows ==
    {w \in AggTags \X AggRuns :
        w[1] \in {None, PyList(<<PyStr("domain:finance")>>)}
            \/ w[2] = <<Run("success")>>}

\* the loop "for tag, tag_dags in dags_by_tag.items()": one summary per
\* group, from the runs fetched for the group's workflows
RECURSIVE build_summaries(_, _, _, _)
build_summaries(groups, tags, runs, t) ==
    IF tags = <<>> THEN <<>>
    ELSE LET tag == Head(tags)
             tag_dags == groups.lists[tag]
             all_runs == [id \in dag_ids(tag_dags) |-> runs[id]]
         IN <<_build_domain_summary(tag, tag_dags, all_runs, t)>>
            \o build_summaries(groups, Tail(tags), runs, t)

\* the try block of get_dashboard_data when every fetch returns
get_dashboard_data(dags, runs, t) ==
    LET groups == _group_dags_by_tags(dags)
    IN DashboardResponse("24h", dags,
                         build_summaries(groups, groups.keys, runs, t), t)

InitSummary ==
    /\ CoreIdle
    /\ ExtraIdle

\* the listing grows by one workflow with the given tags and runs
AddWorkflow(tags, runs) ==
    /\ agg.out = None
    /\ Len(agg.dags) < MaxAggDags
    /\ LET dag_id == DagNames[Len(agg.dags) + 1]
       IN agg' = [agg EXCEPT
                     !.dags = Append(@, [dag_id |-> dag_id, tags |-> tags]),
                     !.runs = Put(@, dag_id, runs)]
    /\ UNCHANGED outsideSummary

Aggregate ==
    /\ agg.out = None
    /\ agg' = [agg EXCEPT !.out = get_dashboard_data(agg.dags, agg.runs, now)]
    /\ UNCHANGED outsideSummary

\* the domains asked for by get_domain_detail
DetailTags == {"Finance", "finance", "untagged"}

\* the response get_domain_detail builds from its members when every
\* fetch returns the runs of the listing
detail_response(domain_tag, domain_dags, runs, t) ==
    LET all_runs == [id \in dag_ids(domain_dags) |-> runs[id]]
    IN DomainDetailResponse(
           domain_tag, "24h",
           _build_domain_summary(domain_tag, domain_dags, all_runs, t),
           [i \in DOMAIN domain_dags |->
               _build_dag_summary_from_runs(domain_dags[i],
                                            all_runs[domain_dags[i].dag_id])],
           t)

\* get_domain_detail(domain_tag) over the listing: the filter loop,
\* "if not domain_dags: raise ValueError" and the response
Detail(domain_tag) ==
    /\ agg.out # None
    /\ agg.detail = None
    /\ LET found == filter_domain_dags(agg.dags, domain_tag)
           error == IF found.error = "none" /\ found.dags = <<>>
                    THEN NoDagsFound ELSE found.error
       IN agg' = [agg EXCEPT !.detail =
                     [domain_tag |-> domain_tag,
                      error |-> error,
                      dags |-> found.dags,
                      response |->
                         IF error = "none"
                         THEN detail_response(domain_tag, found.dags,
                                              agg.runs, now)
                         ELSE None]]
    /\ UNCHANGED outsideSummary

NextSummary ==
    \/ \E w \in AggWorkflows : AddWorkflow(w[1], w[2])
    \/ Aggregate
    \/ \E domain_tag \in DetailTags : Detail(domain_tag)

SpecSummary == InitSummary /\ [][NextSummary]_vars

\* the workflows of the listing that belong to the domain tag
AggMembers(tag) ==
    {i \in DOMAIN agg.dags : dag_domain(agg.dags[i]) = tag}

\* the state a fetched run is in; "null" for a null run, "" for no state
StateOf(run) ==
    IF run = None THEN "null"
    ELSE IF run.state = None THEN ""
    ELSE run.state.value

\* the runs (workflow, position) of the domain's workflows
DomainRuns(tag) ==
    UNION {{<<i, j>> : j \in {n \in DOMAIN agg.runs[agg.dags[i].dag_id] :
                  StateOf(agg.runs[agg.dags[i].dag_id][n]) # "null"}} :
              i \in AggMembers(tag)}

RunsInState(tag, state) ==
    {p \in DomainRuns(tag) :
        StateOf(agg.runs[agg.dags[p[1]].dag_id][p[2]]) = state}

\* score, in hundredths, is success / total x 100 rounded to 2 decimals
RoundedRate(score, success, total) ==
    LET d == score * total - success * 10000
    IN 2 * d <= total /\ -2 * d <= total

\* C11: in a dashboard response every domain summary counts the member
\* workflows of its domain and, per state, the runs fetched for them, its
\* health_score is success_count / total_runs x 100 rounded to 2 decimals
\* (100.0 without runs); total_dags of the response is the number of listed
\* workflows and total_domains the number of summaries, one per domain.
C11_Counts ==
    agg.out # None =>
        /\ agg.out.total_dags = Len(agg.dags)
        /\ agg.out.total_domains = Len(agg.out.domains)
        /\ {agg.out.domains[k].domain_tag : k \in DOMAIN agg.out.domains}
              = {dag_domain(agg.dags[i]) : i \in DOMAIN agg.dags}
        /\ Len(agg.out.domains)
              = Cardinality({dag_domain(agg.dags[i]) : i \in DOMAIN agg.dags})
        /\ \A k \in DOMAIN agg.out.domains :
              LET summary == agg.out.domains[k]
                  tag == summary.domain_tag
              IN /\ summary.total_dags = Cardinality(AggMembers(tag))
                 /\ summary.total_runs = Cardinality(DomainRuns(tag))
                 /\ summary.failed_count
                       = Cardinality(RunsInState(tag, "failed"))
                 /\ summary.success_count
                       = Cardinality(RunsInState(tag, "success"))
                 /\ summary.running_count
                       = Cardinality(RunsInState(tag, "running"))
                 /\ summary.queued_count
                       = Cardinality(RunsInState(tag, "queued"))
                 /\ IF summary.total_runs = 0
                    THEN summary.health_score = 10000
                    ELSE RoundedRate(summary.health_score,
                                     summary.success_count,
                                     summary.total_runs)

\* two finance workflows with runs [success, failed] and [success] and one
\* untagged workflow with [success]: finance 2, 1, 2, 66.67 and untagged
\* 1, 0, 1, 100.0
C11_Witness ==
    /\ agg.out # None
    /\ agg.out.total_domains = 2
    /\ agg.out.total_dags = 3
    /\ \E k \in DOMAIN agg.out.domains :
          /\ agg.out.domains[k].domain_tag = "finance"
          /\ agg.out.domains[k].total_dags = 2
          /\ agg.out.domains[k].failed_count = 1
          /\ agg.out.domains[k].success_count = 2
          /\ agg.out.domains[k].health_score = 6667
    /\ \E k \in DOMAIN agg.out.domains :
          /\ agg.out.domains[k].domain_tag = "untagged"
          /\ agg.out.domains[k].total_dags = 1
          /\ agg.out.domains[k].failed_count = 0
          /\ agg.out.domains[k].success_count = 1
          /\ agg.out.domains[k].health_score = 10000

\* C12 as stated: health_score lies in [0, 100] and is 100.0 exactly when
\* total_runs = 0.
C12_AsStated ==
    agg.out # None =>
        \A k \in DOMAIN agg.out.domains :
            /\ agg.out.domains[k].health_score >= 0
            /\ agg.out.domains[k].health_score <= 10000
            /\ agg.out.domains[k].health_score = 10000
                  <=> agg.out.domains[k].total_runs = 0

\* C12 amended: health_score lies in [0, 100] and is 100.0 whenever
\* total_runs = 0.
C12_Range ==
    agg.out # None =>
        \A k \in DOMAIN agg.out.domains :
            /\ agg.out.domains[k].health_score >= 0
            /\ agg.out.domains[k].health_score <= 10000
            /\ agg.out.domains[k].total_runs = 0
                  => agg.out.domains[k].health_score = 10000

\* a domain without runs next to a domain whose runs did not all succeed
C12_Witness ==
    /\ agg.out # None
    /\ \E k \in DOMAIN agg.out.domains : agg.out.domains[k].total_runs = 0
    /\ \E k \in DOMAIN agg.out.domains :
          /\ agg.out.domains[k].total_runs > 0
          /\ agg.out.domains[k].health_score < 10000

-----------------------------------------------------------------------------
(* SpecSched: ScheduledReporter.run_scheduler (app/scheduler.py), one      *)
(* iteration of its loop per step, on a clock counted in minutes           *)

MaxDays == 2                    \* calendar days the clock runs through

window_minutes == 1             \* abs(current_minutes - target_minutes) <= 1
sleep_minutes == 1              \* asyncio.sleep(60)
MinutesPerDay == 24 * 60

\* datetime.time(hour, minute) as hour * 60 + minute
time(hour, minute) == hour * 60 + minute

\* now.date()
Date(day) == [type |-> "date", day |-> day]

\* (morning_time, evening_time): the defaults, equal times, adjacent times
SlotTimes ==
    {<<time(10, 0), time(19, 0)>>,
     <<time(10, 0), time(10, 0)>>,
     <<time(10, 0), time(10, 2)>>}

\* the minute of day 0 at which run_scheduler is started
StartTimes == {0, time(10, 0)}

\* whole minutes an awaited generate_and_send_report takes
GenDurations == {0, 3}

abs(n) == IF n < 0 THEN -n ELSE n

_is_time_to_report(current_minutes, target_minutes) ==
    abs(current_minutes - target_minutes) <= window_minutes

current_time(s) == s.t % MinutesPerDay

current_date(s) == Date(s.t \div MinutesPerDay)

\* the branch one iteration of the while loop takes
branch(s) ==
    IF /\ _is_time_to_report(current_time(s), s.morning_time)
       /\ current_date(s) # s.last_morning_date
    THEN "morning"
    ELSE IF /\ _is_time_to_report(current_time(s), s.evening_time)
            /\ current_date(s) # s.last_evening_date
         THEN "evening"
         ELSE "none"

InitSched ==
    /\ CoreIdle
    /\ ExtraIdle

\* asyncio.create_task(scheduled_reporter.run_scheduler()) at minute start
\* of day 0, with the configured slot times
run_scheduler(times, start) ==
    /\ sched = Idle
    /\ sched' = [pc |-> "loop", running |-> TRUE,
                 morning_time |-> times[1], evening_time |-> times[2],
                 started |-> start, t |-> start,
                 last_morning_date |-> None, last_evening_date |-> None,
                 fired |-> {}, tick |-> None]
    /\ UNCHANGED outsideSched

Looping ==
    /\ sched.pc = "loop"
    /\ sched.running
    /\ sched.t < MaxDays * MinutesPerDay

\* the date guard as it would be if it were recorded for a delivered report
\* only
recorded_date_if_delivered(s, previous, delivered) ==
    IF delivered THEN current_date(s) ELSE previous

\* "last_morning_date = current_date", "last_evening_date = current_date":
\* the statement after the await, whatever the generation returned
recorded_date(s, previous, delivered) == current_date(s)

\* an iteration that takes the morning branch: the generation is awaited
\* for duration minutes and returns delivered, the date is recorded, the
\* loop sleeps
MorningReport(duration, delivered) ==
    /\ Looping
    /\ branch(sched) = "morning"
    /\ sched' = [sched EXCEPT
                    !.fired = @ \union {[slot |-> "morning",
                                         date |-> current_date(sched),
                                         at |-> sched.t,
                                         delivered |-> delivered]},
                    !.last_morning_date =
                        recorded_date(sched, @, delivered),
                    !.tick = [at |-> sched.t, slot |-> "morning"],
                    !.t = @ + duration + sleep_minutes]
    /\ UNCHANGED outsideSched

\* an iteration that takes the evening branch
EveningReport(duration, delivered) ==
    /\ Looping
    /\ branch(sched) = "evening"
    /\ sched' = [sched EXCEPT
                    !.fired = @ \union {[slot |-> "evening",
                                         date |-> current_date(sched),
                                         at |-> sched.t,
                                         delivered |-> delivered]},
                    !.last_evening_date =
                        recorded_date(sched, @, delivered),
                    !.tick = [at |-> sched.t, slot |-> "evening"],
                    !.t = @ + duration + sleep_minutes]
    /\ UNCHANGED outsideSched

\* an iteration that takes neither branch
Sleep ==
    /\ Looping
    /\ branch(sched) = "none"
    /\ sched' = [sched EXCEPT !.tick = [at |-> sched.t, slot |-> "none"],
                              !.t = @ + sleep_minutes]
    /\ UNCHANGED outsideSched

\* stop() and the cancellation of the task at shutdown
stop ==
    /\ sched.pc = "loop"
    /\ sched' = [sched EXCEPT !.running = FALSE, !.pc = "stopped"]
    /\ UNCHANGED outsideSched

NextSched ==
    \/ \E times \in SlotTimes, start \in StartTimes :
          run_scheduler(times, start)
    \/ \E duration \in GenDurations, delivered \in BOOLEAN :
          MorningReport(duration, delivered)
    \/ \E duration \in GenDurations, delivered \in BOOLEAN :
          EveningReport(duration, delivered)
    \/ Sleep
    \/ stop

SpecSched == InitSched /\ [][NextSched]_vars

Slots == {"morning", "evening"}

slot_time(s, slot) ==
    IF slot = "morning" THEN s.morning_time ELSE s.evening_time

\* the generations invoked for the slot at ticks of the date
Fired(slot, date) ==
    {f \in sched.fired : f.slot = slot /\ f.date = date}

\* C13 as stated: per slot and calendar date generation is invoked at most
\* once; a tick inside the window of a slot that already fired on that date
\* does not fire it, and a tick inside the window of a slot that has not
\* fired on that date fires it.
C13_AsStated ==
    sched.pc # "idle" =>
        /\ \A slot \in Slots, day \in 0..MaxDays :
              Cardinality(Fired(slot, Date(day))) <= 1
        /\ sched.tick # None =>
              \A slot \in Slots :
                 LET date == Date(sched.tick.at \div MinutesPerDay)
                     inside ==
                         _is_time_to_report(sched.tick.at % MinutesPerDay,
                                            slot_time(sched, slot))
                     before == {f \in Fired(slot, date) :
                                   f.at < sched.tick.at}
                 IN inside =>
                       IF before # {} THEN sched.tick.slot # slot
                       ELSE sched.tick.slot = slot

\* C14 as stated: on every calendar day that ended while the loop was
\* running, generation was invoked exactly once for each slot whose time the
\* loop was running at.
C14_AsStated ==
    sched.pc = "loop" =>
        \A slot \in Slots, day \in 0..(MaxDays - 1) :
            /\ sched.t >= (day + 1) * MinutesPerDay
            /\ sched.started <= day * MinutesPerDay + slot_time(sched, slot)
            => Cardinality(Fired(slot, Date(day))) = 1

-----------------------------------------------------------------------------
(* SpecLogs: HealthService._fetch_consolidated_logs (app/service.py) over  *)
(* the failing workflows of one get_failure_analysis call, one run of the  *)
(* inner loop per step                                                     *)

MaxFailing == 12                \* failing workflows in failed_runs_by_dag

log_limit == 10                 \* _fetch_consolidated_logs(..., limit=10)
runs_per_dag == 2               \* runs[:2]
tasks_per_run == 1              \* failed_tasks[:1]

\* failing workflows of a call
FailingCounts == {0, 3, MaxFailing}

\* failed runs each failing workflow has
FailedRunCounts == {1, 3}

\* failed tasks among the task instances get_task_instances returns; none
\* also when the request failed and [] is returned
FailedTaskCounts == {0, 1, 2}

\* what get_failed_task_logs returns: a text, "" or None after an error
LogContents == {PyStr("log"), PyStr(""), None}

min(a, b) == IF a < b THEN a ELSE b

\* "if log_content:"
log_truthy(log_content) == log_content # None /\ log_content.value # ""

InitLogs ==
    /\ CoreIdle
    /\ ExtraIdle

\* the call with n failing workflows of nruns failed runs each
_fetch_consolidated_logs(n, nruns) ==
    /\ logs = Idle
    /\ logs' = [pc |-> "loop", n |-> n, nruns |-> nruns,
                i |-> 1, j |-> 1, count |-> 0, logs |-> 0,
                task_instance_requests |-> <<>>,
                log_dags |-> 0, log_in_dag |-> FALSE, logs_in_run |-> 0]
    /\ UNCHANGED outsideLogs

\* the position in the two for loops, both "if count >= limit: break"
\* passed
InLoop ==
    /\ logs.pc = "loop"
    /\ logs.i <= logs.n
    /\ logs.count < log_limit

\* one pass of "for run in runs[:2]": the task instances of run j of
\* workflow i are requested, the log of the first failed task is requested,
\* a non-empty log is collected and counted; log_dags counts the workflows
\* a log was requested for, logs_in_run the logs requested in this pass
FetchRun(failed_tasks, log_content) ==
    /\ InLoop
    /\ LET requested == min(failed_tasks, tasks_per_run)
           collected == requested > 0 /\ log_truthy(log_content)
           last_run == logs.j >= min(logs.nruns, runs_per_dag)
       IN logs' = [logs EXCEPT
                      !.task_instance_requests =
                          Append(@, <<logs.i, logs.j>>),
                      !.log_dags =
                          IF requested > 0 /\ ~logs.log_in_dag
                          THEN @ + 1 ELSE @,
                      !.log_in_dag =
                          IF last_run THEN FALSE ELSE @ \/ requested > 0,
                      !.logs_in_run = requested,
                      !.count = IF collected THEN @ + 1 ELSE @,
                      !.logs = IF collected THEN @ + 1 ELSE @,
                      !.i = IF last_run THEN @ + 1 ELSE @,
                      !.j = IF last_run THEN 1 ELSE @ + 1]
    /\ UNCHANGED outsideLogs

\* "return logs"
LogsDone ==
    /\ logs.pc = "loop"
    /\ ~InLoop
    /\ logs' = [logs EXCEPT !.pc = "done"]
    /\ UNCHANGED outsideLogs

NextLogs ==
    \/ \E n \in FailingCounts, nruns \in FailedRunCounts :
          _fetch_consolidated_logs(n, nruns)
    \/ \E failed_tasks \in FailedTaskCounts, log_content \in LogContents :
          FetchRun(failed_tasks, log_content)
    \/ LogsDone

SpecLogs == InitLogs /\ [][NextLogs]_vars

\* the workflows named in a sequence of requests
RequestedDags(requests) == {requests[k][1] : k \in DOMAIN requests}

\* the requests of the sequence made for the workflow
RequestsFor(requests, i) == {k \in DOMAIN requests : requests[k][1] = i}

\* C15 as stated: whatever the log requests return, task instances and logs
\* are requested for at most 10 distinct workflows, at most 2 runs of each
\* and at most 1 failed task per run.
C15_AsStated ==
    logs.pc # "idle" =>
        /\ Cardinality(RequestedDags(logs.task_instance_requests))
              <= log_limit
        /\ logs.log_dags <= log_limit
        /\ \A i \in 1..logs.n :
              Cardinality(RequestsFor(logs.task_instance_requests, i))
                  <= runs_per_dag
        /\ logs.logs_in_run <= tasks_per_run

-----------------------------------------------------------------------------
(* SpecAnalysis: the "Generate LLM analysis with fallback" step of         *)
(* HealthService.get_failure_analysis (app/service.py) over                *)
(* LLMService.analyze_failures (app/llm_service.py) and the answers of the *)
(* analysis provider                                                       *)

Entry(key, value) == [key |-> key, value |-> value]

\* the dict analyze_failures returns when the service is not enabled
llm_not_configured ==
    PyDict(<<Entry("summary",
                   PyStr("LLM analysis disabled. Please configure LLM_API_KEY.")),
             Entry("categories", PyList(<<>>)),
             Entry("action_items", PyList(<<>>)),
             Entry("error", PyStr("LLM_NOT_CONFIGURED"))>>)

\* the dict of "except Exception as e" in analyze_failures
analysis_failed(e) ==
    PyDict(<<Entry("summary", PyStr("Analysis failed: " \o e)),
             Entry("categories", PyList(<<>>)),
             Entry("action_items", PyList(<<>>)),
             Entry("error", PyStr(e))>>)

\* the fallback dict of "except Exception as e" in get_failure_analysis;
\* the counts in the text are left out
unable_to_generate(e) ==
    PyDict(<<Entry("summary",
                   PyStr("Unable to generate AI analysis: " \o e)),
             Entry("categories", PyList(<<>>)),
             Entry("action_items", PyList(<<>>)),
             Entry("error", PyStr(e))>>)

\* message content with the findings in the format the prompt asks for
FindingsText == "{summary, categories: [c], action_items: [a]}"

Findings ==
    PyDict(<<Entry("summary", PyStr("s")),
             Entry("categories", PyList(<<PyStr("c")>>)),
             Entry("action_items", PyList(<<PyStr("a")>>))>>)

\* message contents: the findings, text that is not JSON, and JSON texts of
\* another shape
ContentTexts == {FindingsText, "not json", "{}", "[]", "null"}

\* json.loads(content): the value or the error raised
json_loads(content) ==
    IF content = FindingsText THEN [error |-> "none", value |-> Findings]
    ELSE IF content = "{}" THEN [error |-> "none", value |-> PyDict(<<>>)]
    ELSE IF content = "[]" THEN [error |-> "none", value |-> PyList(<<>>)]
    ELSE IF content = "null" THEN [error |-> "none", value |-> None]
    ELSE [error |-> "JSONDecodeError", value |-> None]

\* what the POST to the provider leads to: an error raised by the request,
\* by raise_for_status or by the lookup of the message content, or the
\* message content
ProviderAnswers ==
    {[kind |-> "raise", error |-> e, content |-> ""] :
        e \in {"RequestError", "HTTPStatusError", "KeyError"}}
    \union {[kind |-> "body", error |-> "none", content |-> c] :
               c \in ContentTexts}

LlmProviders == {"openai", "azure_openai", "anthropic", "other"}

\* _analyze_with_openai / _azure_openai / _anthropic: the value returned or
\* the error raised
analyze_with(provider, azure_configured, answer) ==
    IF provider = "azure_openai" /\ ~azure_configured
    THEN [error |-> "ValueError", value |-> None]
    ELSE IF answer.kind = "raise"
         THEN [error |-> answer.error, value |-> None]
         ELSE json_loads(answer.content)

\* LLMService.analyze_failures: the value returned
analyze_failures(enabled, provider, azure_configured, answer) ==
    IF ~enabled THEN llm_not_configured
    ELSE IF provider \notin {"openai", "azure_openai", "anthropic"}
         THEN analysis_failed("ValueError")
         ELSE LET r == analyze_with(provider, azure_configured, answer)
              IN IF r.error # "none" THEN analysis_failed(r.error)
                 ELSE r.value

\* the dict result of get_failure_analysis around llm_analysis
failure_analysis_result(time_range, total_analyzed, failed, llm_analysis, t) ==
    [llm_analysis |-> llm_analysis,
     failed_dags |-> failed,
     time_range |-> time_range,
     total_failed_dags |-> Len(failed),
     total_failed_runs |-> sum_failed_count(failed),
     total_analyzed_dags |-> total_analyzed,
     generated_at |-> DateStr(t)]

FailedDag(dag_id, n) == [dag_id |-> dag_id, failed_count |-> n]

\* failed_dags of a call
FailedLists ==
    {<<>>, <<FailedDag("d1", 1)>>, <<FailedDag("d1", 2), FailedDag("d2", 1)>>}

InitAnalysis ==
    /\ CoreIdle
    /\ ExtraIdle

\* get_failure_analysis up to "Generate LLM analysis with fallback", under
\* the settings of the analysis service
AnalysisStart(enabled, provider, azure_configured, failed) ==
    /\ failure_analysis = Idle
    /\ failure_analysis' = [pc |-> "analyze", enabled |-> enabled,
                            provider |-> provider,
                            azure_configured |-> azure_configured,
                            failed |-> failed, answer |-> None,
                            outcome |-> "none", result |-> None]
    /\ UNCHANGED outsideAnalysis

\* analyze_failures returns; the result is built and returned
AnalysisReturn(answer) ==
    /\ failure_analysis.pc = "analyze"
    /\ LET fa == failure_analysis
           llm_analysis == analyze_failures(fa.enabled, fa.provider,
                                            fa.azure_configured, answer)
       IN failure_analysis' =
              [fa EXCEPT !.pc = "done", !.answer = answer,
                         !.outcome = "returned",
                         !.result = failure_analysis_result(
                                        "24h", Len(fa.failed) + 1, fa.failed,
                                        llm_analysis, now)]
    /\ UNCHANGED outsideAnalysis

\* analyze_failures raises before its own try (_build_failure_context); the
\* fallback of get_failure_analysis is built and returned
AnalysisFallback ==
    /\ failure_analysis.pc = "analyze"
    /\ failure_analysis.enabled
    /\ LET fa == failure_analysis
       IN failure_analysis' =
              [fa EXCEPT !.pc = "done",
                         !.answer = [kind |-> "raise", error |-> "Exception",
                                     content |-> ""],
                         !.outcome = "returned",
                         !.result = failure_analysis_result(
                                        "24h", Len(fa.failed) + 1, fa.failed,
                                        unable_to_generate("Exception"), now)]
    /\ UNCHANGED outsideAnalysis

NextAnalysis ==
    \/ \E enabled \in BOOLEAN, provider \in LlmProviders,
          azure_configured \in BOOLEAN, failed \in FailedLists :
          AnalysisStart(enabled, provider, azure_configured, failed)
    \/ \E answer \in ProviderAnswers : AnalysisReturn(answer)
    \/ AnalysisFallback

SpecAnalysis == InitAnalysis /\ [][NextAnalysis]_vars

\* a summary with empty categories and action items
MinimalSummary(d) ==
    /\ d.type = "dict"
    /\ dict_has(d, "summary") /\ dict_item(d, "summary").type = "str"
    /\ dict_has(d, "categories") /\ dict_item(d, "categories") = PyList(<<>>)
    /\ dict_has(d, "action_items")
    /\ dict_item(d, "action_items") = PyList(<<>>)

\* the provider is disabled, failed or gave an answer other than findings
Degraded(fa) ==
    \/ ~fa.enabled
    \/ fa.provider \notin {"openai", "azure_openai", "anthropic"}
    \/ fa.provider = "azure_openai" /\ ~fa.azure_configured
    \/ fa.answer.kind = "raise"
    \/ fa.answer.content # FindingsText

\* C16 as stated: when the provider is disabled, fails or gives an unusable
\* answer, get_failure_analysis returns a complete result whose llm_analysis
\* is a minimal summary with empty categories and action items, with the
\* failed workflows and their counts.
C16_AsStated ==
    failure_analysis.pc = "done" /\ Degraded(failure_analysis) =>
        /\ failure_analysis.outcome = "returned"
        /\ MinimalSummary(failure_analysis.result.llm_analysis)
        /\ failure_analysis.result.failed_dags = failure_analysis.failed
        /\ failure_analysis.result.total_failed_dags
              = Len(failure_analysis.failed)
        /\ failure_analysis.result.total_failed_runs
              = sum_failed_count(failure_analysis.failed)

-----------------------------------------------------------------------------
(* SpecClient: AirflowAPIClient.__init__ (app/airflow_client.py) under the *)
(* settings of the process                                                 *)

\* an Optional[str] setting: absent, empty or given
SettingValues == {None, PyStr(""), PyStr("x")}

SettingNames ==
    {"airflow_api_token", "airflow_username", "airflow_password",
     "aws_region", "mwaa_environment_name"}

Settings == [SettingNames -> SettingValues]

\* bool(v) of an Optional[str]
truthy(v) == v # None /\ v.value # ""

AuthMissing == "ValueError: Authentication configuration missing"
MwaaFailed == "ValueError: Failed to get MWAA session info"

\* the if / elif chain of __init__ with basic auth tested first
select_auth_type_basic_first(settings) ==
    IF truthy(settings["airflow_username"])
          /\ truthy(settings["airflow_password"])
    THEN "basic"
    ELSE IF truthy(settings["airflow_api_token"]) THEN "token"
    ELSE IF truthy(settings["aws_region"])
               /\ truthy(settings["mwaa_environment_name"])
         THEN "mwaa"
         ELSE "none"

\* the chain with an added test that refuses a second configured strategy
select_auth_type_exclusive(settings) ==
    LET token == truthy(settings["airflow_api_token"])
        basic == truthy(settings["airflow_username"])
                    /\ truthy(settings["airflow_password"])
        mwaa == truthy(settings["aws_region"])
                   /\ truthy(settings["mwaa_environment_name"])
    IN IF (token /\ basic) \/ (token /\ mwaa) \/ (basic /\ mwaa) THEN "none"
       ELSE IF token THEN "token"
       ELSE IF basic THEN "basic"
       ELSE IF mwaa THEN "mwaa"
       ELSE "none"

\* the if / elif chain of __init__: the auth_type assigned, "none" in the
\* else branch
select_auth_type(settings) ==
    IF truthy(settings["airflow_api_token"]) THEN "token"
    ELSE IF truthy(settings["airflow_username"])
               /\ truthy(settings["airflow_password"])
         THEN "basic"
    ELSE IF truthy(settings["aws_region"])
               /\ truthy(settings["mwaa_environment_name"])
         THEN "mwaa"
         ELSE "none"

InitClient ==
    /\ CoreIdle
    /\ ExtraIdle

\* the settings are loaded
LoadSettings(settings) ==
    /\ client = Idle
    /\ client' = [pc |-> "configured", settings |-> settings,
                  auth_type |-> None, session_cookie |-> None,
                  error |-> "none"]
    /\ UNCHANGED outsideClient

\* AirflowAPIClient(): login tells whether _get_mwaa_session_info returns
\* the session or None
Construct(login) ==
    /\ client.pc = "configured"
    /\ LET selected == select_auth_type(client.settings)
       IN client' =
            IF selected = "none"
            THEN [client EXCEPT !.pc = "failed", !.error = AuthMissing]
            ELSE IF selected = "mwaa" /\ ~login
                 THEN [client EXCEPT !.pc = "failed",
                                     !.auth_type = PyStr("mwaa"),
                                     !.error = MwaaFailed]
                 ELSE [client EXCEPT
                          !.pc = "constructed",
                          !.auth_type = PyStr(selected),
                          !.session_cookie =
                              IF selected = "mwaa" THEN PyStr("session")
                              ELSE None]
    /\ UNCHANGED outsideClient

NextClient ==
    \/ \E settings \in Settings : LoadSettings(settings)
    \/ \E login \in BOOLEAN : Construct(login)

SpecClient == InitClient /\ [][NextClient]_vars

IsSet(name) ==
    /\ client.settings[name] # None
    /\ client.settings[name] # PyStr("")

\* C17: construction selects token if an API token is set, otherwise basic
\* if username and password are both set, otherwise the session strategy if
\* region and environment name are both set; otherwise it fails with
\* 'Authentication configuration missing' and no client exists.
C17_Selection ==
    client.pc \in {"constructed", "failed"} =>
        LET token == IsSet("airflow_api_token")
            basic == IsSet("airflow_username") /\ IsSet("airflow_password")
            mwaa == IsSet("aws_region") /\ IsSet("mwaa_environment_name")
        IN /\ token => client.auth_type = PyStr("token")
           /\ ~token /\ basic => client.auth_type = PyStr("basic")
           /\ ~token /\ ~basic /\ mwaa => client.auth_type = PyStr("mwaa")
           /\ ~token /\ ~basic /\ ~mwaa =>
                 /\ client.pc = "failed"
                 /\ client.error = AuthMissing
                 /\ client.auth_type = None
           /\ client.error = AuthMissing => ~token /\ ~basic /\ ~mwaa
           /\ client.pc = "constructed" /\ client.auth_type # PyStr("mwaa")
                 => client.session_cookie = None

\* a username without password and a region without environment name: no
\* client
C17_Witness ==
    /\ client.pc = "failed"
    /\ IsSet("airflow_username") /\ ~IsSet("airflow_password")
    /\ IsSet("aws_region") /\ ~IsSet("mwaa_environment_name")
    /\ client.error = AuthMissing

-----------------------------------------------------------------------------
(* SpecReport: ScheduledReporter.generate_and_send_report                  *)
(* (app/scheduler.py) over SlackService.send_health_summary                *)
(* (app/slack_service.py)                                                  *)

MaxReportDomains == 3           \* domains in the dashboard response

\* failed_count of a domain summary
ReportFailedCounts == {0, 1, 2}

\* dashboard_data.domains, by the failed_count of each summary
RECURSIVE DomainLists(_)
DomainLists(n) ==
    IF n = 0 THEN {<<>>}
    ELSE DomainLists(n - 1)
         \union {Append(d, c) : d \in {l \in DomainLists(n - 1) :
                                          Len(l) = n - 1},
                                c \in ReportFailedCounts}

\* what get_dashboard_data does: it raises (upstream failure without
\* fallback) or returns a response with the domains
DashboardOutcomes ==
    {[raised |-> TRUE, domains |-> <<>>]}
    \union {[raised |-> FALSE, domains |-> d] :
               d \in DomainLists(MaxReportDomains)}

\* what the POST to the webhook leads to
SinkAnswers == {"200", "404", "500", "RequestError"}

\* sum(d.failed_count for d in dashboard_data.domains)
RECURSIVE total_failures(_)
total_failures(domains) ==
    IF domains = <<>> THEN 0
    ELSE Head(domains) + total_failures(Tail(domains))

\* send_health_summary as it would be if every answer of the sink counted
send_health_summary_any_status(webhook_url, answer) ==
    IF ~webhook_url THEN FALSE
    ELSE answer # "RequestError"

\* SlackService.send_health_summary: the boolean returned
send_health_summary(webhook_url, answer) ==
    IF ~webhook_url THEN FALSE
    ELSE IF answer = "RequestError" THEN FALSE
    ELSE answer = "200"

InitReport ==
    /\ CoreIdle
    /\ ExtraIdle

\* the call, under a configured or missing webhook URL
generate_and_send_report(include_ai_analysis, webhook_url) ==
    /\ report = Idle
    /\ report' = [pc |-> "dashboard", webhook_url |-> webhook_url,
                  include_ai_analysis |-> include_ai_analysis,
                  domains |-> <<>>, upstream_failed |-> FALSE,
                  ai_failed |-> FALSE, ai_analysis |-> None,
                  posted |-> FALSE, accepted |-> FALSE,
                  outcome |-> "none", ret |-> FALSE, log |-> {}]
    /\ UNCHANGED outsideReport

\* "return False" / "return success"
Returned(r, ret, level) ==
    [r EXCEPT !.pc = "done", !.outcome = "returned", !.ret = ret,
              !.log = @ \union {level}]

\* get_dashboard_data returns or raises
DashboardData(d) ==
    /\ report.pc = "dashboard"
    /\ report' =
          IF d.raised
          THEN Returned([report EXCEPT !.upstream_failed = TRUE],
                        FALSE, "error")
          ELSE IF d.domains = <<>>
               THEN Returned(report, FALSE, "warning")
               ELSE [report EXCEPT
                        !.domains = d.domains,
                        !.pc = IF report.include_ai_analysis
                                  /\ total_failures(d.domains) > 0
                               THEN "ai" ELSE "send"]
    /\ UNCHANGED outsideReport

\* llm_service.analyze_domain_failures: LLMService has no such method, the
\* AttributeError is caught and logged, ai_analysis stays None
AiAnalysis ==
    /\ report.pc = "ai"
    /\ report' = [report EXCEPT !.pc = "send", !.ai_failed = TRUE,
                                !.log = @ \union {"error"}]
    /\ UNCHANGED outsideReport

\* send_health_summary returns
Send(answer) ==
    /\ report.pc = "send"
    /\ LET success == send_health_summary(report.webhook_url, answer)
       IN report' =
             Returned([report EXCEPT
                          !.posted = report.webhook_url,
                          !.accepted = report.webhook_url /\ answer = "200"],
                      success, IF success THEN "info" ELSE "error")
    /\ UNCHANGED outsideReport

NextReport ==
    \/ \E include_ai_analysis \in BOOLEAN, webhook_url \in BOOLEAN :
          generate_and_send_report(include_ai_analysis, webhook_url)
    \/ \E d \in DashboardOutcomes : DashboardData(d)
    \/ AiAnalysis
    \/ \E answer \in SinkAnswers : Send(answer)

SpecReport == InitReport /\ [][NextReport]_vars

\* C18: generate_and_send_report returns and never raises; it returns true
\* when the sink accepted the message and false exactly when no message was
\* delivered; every failure is logged; a failed AI analysis alone does not
\* keep the report from being sent.
C18_BooleanOutcome ==
    /\ report.pc = "done" =>
          /\ report.outcome = "returned"
          /\ report.ret = report.accepted
          /\ ~report.ret => report.log \cap {"error", "warning"} # {}
          /\ report.upstream_failed \/ report.domains = <<>>
                => ~report.posted /\ ~report.ret
          /\ report.ai_failed => "error" \in report.log
    /\ report.pc = "send" /\ report.ai_failed => report.ai_analysis = None
    /\ report.pc = "ai" =>
          report.include_ai_analysis /\ total_failures(report.domains) > 0

\* the AI analysis failed and the sink accepted the message: true returned
C18_Witness ==
    /\ report.pc = "done"
    /\ report.ai_failed
    /\ report.accepted
    /\ report.ret

-----------------------------------------------------------------------------
(* plain tags, under SpecSummary                                           *)

PlainTags == {"Finance", "Marketing"}

\* the listed workflows that carry the plain tag
PlainTagged(tag) ==
    {i \in DOMAIN agg.dags : agg.dags[i].tags = PyList(<<PyStr(tag)>>)}

\* C19 as stated: the workflows carrying a plain tag T form the domain T of
\* the dashboard, with total_dags their number, and get_domain_detail(T)
\* returns them rather than a not-found error.
C19_AsStated ==
    /\ agg.out # None =>
          \A tag \in PlainTags :
             PlainTagged(tag) # {} =>
                \E k \in DOMAIN agg.out.domains :
                   /\ agg.out.domains[k].domain_tag = tag
                   /\ agg.out.domains[k].total_dags
                         = Cardinality(PlainTagged(tag))
    /\ agg.detail # None =>
          \A tag \in PlainTags :
             agg.detail.domain_tag = tag /\ PlainTagged(tag) # {} =>
                /\ agg.detail.error = "none"
                /\ {agg.detail.dags[k].dag_id : k \in DOMAIN agg.detail.dags}
                      = {agg.dags[i].dag_id : i \in PlainTagged(tag)}

-----------------------------------------------------------------------------
(* the fan-out and join of get_all_dag_runs_for_dags, under SpecGateway    *)

\* a step of the call: started, all its GETs are in flight, one per
\* requested id; while any is in flight nothing is reduced; the results
\* exist only once every GET has completed or failed
C20_Step ==
    /\ runs_call.pc = "idle" /\ runs_call'.pc = "gathering" =>
          /\ DOMAIN runs_call'.responses = DOMAIN runs_call'.dag_ids
          /\ \A i \in DOMAIN runs_call'.dag_ids :
                runs_call'.responses[i] = Pending
    /\ runs_call'.pc = "gathering" => runs_call'.results = None
    /\ runs_call'.pc = "returned" =>
          /\ DOMAIN runs_call'.responses = DOMAIN runs_call'.dag_ids
          /\ \A i \in DOMAIN runs_call'.responses :
                runs_call'.responses[i] # Pending
          /\ runs_call'.results # None

\* C20: one run request is issued per requested workflow id, all of them are
\* in flight together whatever their number, and the reduction starts only
\* after every request has completed or failed, in whatever order they
\* complete.
C20_FanOutJoin == [][C20_Step]_vars

\* the last of the requests has completed while the first is in flight
C20_Witness ==
    /\ runs_call.pc = "gathering"
    /\ Len(runs_call.dag_ids) = MaxIds
    /\ runs_call.responses[MaxIds] # Pending
    /\ runs_call.responses[1] = Pending

-----------------------------------------------------------------------------
(* Primary and fallback entries of one key                                 *)

\* the primary keys with their fallback keys
KeyPairs ==
    {<<dashboard_key(tr), dashboard_fallback_key(tr)>> : tr \in TimeRanges}
    \cup {<<domain_key(d, tr), domain_fallback_key(d, tr)>> :
             d \in DomainTags, tr \in TimeRanges}

\* seconds between a write and a read that finds the entry unexpired
StampSteps == {60}

\* the service with a clock fine enough for a primary entry to be read
\* after the instant it was written and before it expires
NextStamp ==
    \/ \E op \in ServiceOps, domain_tag \in DomainTags,
          force_refresh \in BOOLEAN :
          ServiceStart(op, domain_tag, force_refresh)
    \/ ListOk
    \/ \E e \in UpstreamErrors : ListError(e)
    \/ RunsFetched
    \/ \E llm_ok \in BOOLEAN : Analyzed(llm_ok)
    \/ Cancel
    \/ \E listing \in Listings : UpstreamChange(listing)
    \/ \E d \in StampSteps : Tick(d)

SpecStamp == InitService /\ [][NextStamp]_vars

\* C21 as stated: whenever no aggregation is in flight and the primary and
\* the fallback entry of a key are both unexpired, the two hold the same
\* payload (compared as the JSON documents they serialize to).
C21_AsStated ==
    call = Idle =>
        \A p \in KeyPairs :
            LET view == View(CacheState, now)
            IN (view[p[1]] # None /\ view[p[2]] # None) =>
                   JsonRoundTrip(view[p[1]]) = JsonRoundTrip(view[p[2]])

-----------------------------------------------------------------------------
(* SpecDetail: get_domain_detail over an Airflow server whose runs change  *)
(* between two requests; a run request that fails contributes no runs.     *)

\* what the server may answer for a workflow's runs
LiveRuns == {<<Run("failed"), Run("success")>>, <<Run("success")>>, <<>>}

\* get_all_dag_runs_for_dags returned what the server holds at this moment
RunsFetchedLive ==
    /\ call.pc \in {"runs", "summary"}
    /\ \E all_runs \in [dag_ids(FetchDags) -> LiveRuns] :
          RunsReturn(all_runs)
    /\ UNCHANGED <<use_redis, now, cache_op, airflow_dags, outsideService>>

NextDetail ==
    \/ \E domain_tag \in DomainTags, force_refresh \in BOOLEAN :
          ServiceStart("domain", domain_tag, force_refresh)
    \/ ListOk
    \/ \E e \in UpstreamErrors : ListError(e)
    \/ RunsFetchedLive
    \/ Cancel
    \/ \E listing \in Listings : UpstreamChange(listing)
    \/ \E d \in StampSteps : Tick(d)

SpecDetail == InitService /\ [][NextDetail]_vars

RECURSIVE sum_counts(_, _)
sum_counts(dag_summaries, field) ==
    IF dag_summaries = <<>> THEN 0
    ELSE Head(dag_summaries)[field]
         + sum_counts(Tail(dag_summaries), field)

StateCounts ==
    {"failed_count", "success_count", "running_count", "queued_count"}

\* C22 as stated: in a domain detail response every state count of the
\* domain summary equals the sum of that count over the response's
\* workflows, the summary and the workflows being computed from one batch
\* of runs.
C22_AsStated ==
    (result.outcome = "returned" /\ result.op = "domain") =>
        \A field \in StateCounts :
            result.payload.summary[field]
                = sum_counts(result.payload.dags, field)

-----------------------------------------------------------------------------
(* The route GET /domains/{domain_tag} *)

\* the status the route answers for the result r of get_domain_detail:
\* "except ValueError" gives 404, "except Exception" gives 500
status_code(r) ==
    IF r.outcome = "returned" THEN 200
    ELSE IF r.error = NoDagsFound \/ IsValueError(r.error) THEN 404
    ELSE 500

\* C23 as stated: the domain detail is answered not-found (404) only when
\* the listing succeeded and held no workflow of the domain; a call whose
\* upstream failed looks for its fallback entry and is never answered
\* not-found.
C23_AsStated ==
    (/\ result.outcome \in {"returned", "raised"}
     /\ result.op = "domain"
     /\ status_code(result) = 404) =>
        /\ result.error = NoDagsFound
        /\ ~result.members

-----------------------------------------------------------------------------
(* Grouping and the membership filter of the domain detail *)

\* domain keys asked of get_domain_detail besides those the grouping made
AskedDomains == {"a", "b", "untagged"}

\* the workflows _group_dags_by_tags put under the key domain_tag
grouped_under(groups, domain_tag) ==
    IF domain_tag \in DOMAIN groups.lists THEN groups.lists[domain_tag]
    ELSE <<>>

\* C24 as stated: for every listing and every domain key, the filter of
\* get_domain_detail selects exactly the workflows that _group_dags_by_tags
\* put under that key, so a domain the dashboard lists is found by the
\* detail and a workflow belongs to its first domain tag only.
C24_AsStated ==
    group_out # None =>
        \A domain_tag \in AskedDomains \cup DOMAIN group_out.lists :
            LET found == filter_domain_dags(group_in, domain_tag)
            IN /\ found.error = "none"
               /\ found.dags = grouped_under(group_out, domain_tag)

\* any(tag_name.startswith("domain:")) over the normalized tag names
has_domain_prefix(dag) ==
    LET tag_names == IF dag.tags = None THEN <<>>
                     ELSE group_tag_names(dag.tags)
    IN \E i \in DOMAIN tag_names :
          /\ IsStr(tag_names[i])
          /\ startswith(tag_names[i].value, "domain:")

\* C26 as stated: in the grouping and in the filter of the domain detail
\* alike, a workflow is under "untagged" if and only if none of its tags
\* starts with "domain:".
C26_AsStated ==
    group_out # None =>
        \A i \in DOMAIN group_in :
            LET dag == group_in[i]
                found == filter_domain_dags(group_in, "untagged")
            IN /\ dag.dag_id \in dag_ids(grouped_under(group_out, "untagged"))
                     <=> ~has_domain_prefix(dag)
               /\ found.error = "none"
               /\ dag.dag_id \in dag_ids(found.dags)
                     <=> ~has_domain_prefix(dag)

\* the two paths agree on who is untagged
UntaggedPathsAgree ==
    group_out # None =>
        dag_ids(grouped_under(group_out, "untagged"))
            = dag_ids(filter_domain_dags(group_in, "untagged").dags)

-----------------------------------------------------------------------------
(* An expired session during the batch fetch of the runs *)

\* C25 as stated: under the session strategy a 401 answer to one of the GETs
\* of get_all_dag_runs_for_dags is followed by a session refresh and a
\* retry, so the call never returns results built from a 401 answer.
C25_AsStated ==
    (auth_type = "mwaa" /\ runs_call.pc = "returned") =>
        \A i \in DOMAIN runs_call.responses :
            runs_call.responses[i].kind # "unauthorized"

-----------------------------------------------------------------------------
(* Order of the domains and of a domain's workflows *)

\* the items of a list are in order: those with failures before the
\* others, and within each class by name in str order
Ordered(items, failing(_), name(_)) ==
    \A i, j \in DOMAIN items :
        i < j =>
            /\ failing(items[j]) => failing(items[i])
            /\ failing(items[i]) = failing(items[j]) =>
                  str_less(name(items[i]), name(items[j]))

DomainFails(d) == d.has_failures
DomainName(d) == d.domain_tag
DagFails(d) == d.failed_count > 0
DagName(d) == d.dag_id

\* C27: in every dashboard response the domains with failures come before
\* the others and each class is in ascending order of the domain key; in
\* every domain detail response the workflows with failed_count > 0 come
\* first and each class is in ascending order of the workflow id.
C27_Ordering ==
    /\ agg.out # None => Ordered(agg.out.domains, DomainFails, DomainName)
    /\ (agg.detail # None /\ agg.detail.error = "none") =>
          Ordered(agg.detail.response.dags, DagFails, DagName)

\* a failing domain is listed before a healthy domain of smaller key, and
\* the detail lists a failing workflow before a healthy one of smaller id
C27_Witness ==
    /\ agg.out # None
    /\ Len(agg.out.domains) = 2
    /\ agg.out.domains[1].has_failures
    /\ ~agg.out.domains[2].has_failures
    /\ str_less(agg.out.domains[2].domain_tag, agg.out.domains[1].domain_tag)
    /\ agg.detail # None
    /\ agg.detail.error = "none"
    /\ Len(agg.detail.response.dags) = 2
    /\ agg.detail.response.dags[1].failed_count > 0
    /\ agg.detail.response.dags[2].failed_count = 0
    /\ str_less(agg.detail.response.dags[2].dag_id,
                agg.detail.response.dags[1].dag_id)

-----------------------------------------------------------------------------
(* SpecRuns: the runs of one workflow, as the Airflow server may return    *)
(* them, are aggregated by _build_domain_summary and                       *)
(* _build_dag_summary_from_runs and displayed by get_dag_runs.             *)

MaxRuns == 3                    \* runs of the workflow

\* a run whose JSON object has no "state" key
RunWithoutState == [dag_run_id |-> "r1"]

\* the runs returned: a null run, a run whose state is null, a run without
\* state, runs in states of DagRunState, a state in upper case and a state
\* that DagRunState does not have
RunValues ==
    {None, [state |-> None], RunWithoutState, Run("failed"), Run("queued"),
     Run("SUCCESS"), Run("skipped")}

\* run.get("state") or "queued"
state_or_queued(run) ==
    IF "state" \in DOMAIN run /\ run.state # None /\ run.state.value # ""
    THEN run.state.value ELSE "queued"

\* HealthService.get_dag_runs as it would be if a run without state were
\* left out of the display
RECURSIVE get_dag_runs_stated_only(_, _)
get_dag_runs_stated_only(dag_id, runs) ==
    IF runs = <<>> THEN [error |-> "none", summaries |-> <<>>]
    ELSE LET run == Head(runs)
             rest == get_dag_runs_stated_only(dag_id, Tail(runs))
         IN IF run = None \/ "state" \notin DOMAIN run \/ run.state = None
            THEN rest
            ELSE IF state_or_queued(run) \notin DagRunStates
            THEN [error |-> "ValueError", summaries |-> <<>>]
            ELSE IF rest.error # "none" THEN rest
            ELSE [error |-> "none",
                  summaries |-> <<[dag_id |-> dag_id,
                                   state |-> state_or_queued(run)]>>
                                \o rest.summaries]

\* HealthService.get_dag_runs over the runs the gateway returned: a null
\* run is skipped, DagRunState(...) raises ValueError for a value that is
\* not one of its states
RECURSIVE get_dag_runs(_, _)
get_dag_runs(dag_id, runs) ==
    IF runs = <<>> THEN [error |-> "none", summaries |-> <<>>]
    ELSE LET run == Head(runs)
             rest == get_dag_runs(dag_id, Tail(runs))
         IN IF run = None THEN rest
            ELSE IF state_or_queued(run) \notin DagRunStates
            THEN [error |-> "ValueError", summaries |-> <<>>]
            ELSE IF rest.error # "none" THEN rest
            ELSE [error |-> "none",
                  summaries |-> <<[dag_id |-> dag_id,
                                   state |-> state_or_queued(run)]>>
                                \o rest.summaries]

InitRuns ==
    /\ CoreIdle
    /\ SchedIdle /\ LogsIdle /\ AnalysisIdle /\ ClientIdle /\ ReportIdle
    /\ LifespanIdle
    /\ agg = [dags |-> <<dag_u>>, runs |-> Put(EmptyMap, dag_u.dag_id, <<>>),
              out |-> None, detail |-> None]

\* the server holds one more run of the workflow
AddRun(run) ==
    /\ agg.out = None /\ agg.detail = None
    /\ Len(agg.runs[dag_u.dag_id]) < MaxRuns
    /\ agg' = [agg EXCEPT !.runs[dag_u.dag_id] = Append(@, run)]
    /\ UNCHANGED outsideSummary

\* the aggregation of the workflow's runs, for its domain and for itself
Summarize ==
    /\ agg.out = None
    /\ agg' = [agg EXCEPT !.out =
                  [domain |-> _build_domain_summary("untagged", agg.dags,
                                                    agg.runs, now),
                   dag |-> _build_dag_summary_from_runs(
                               dag_u, agg.runs[dag_u.dag_id])]]
    /\ UNCHANGED outsideSummary

\* get_dag_runs(dag_id) returns the display records or raises
DagRuns ==
    /\ agg.detail = None
    /\ agg' = [agg EXCEPT !.detail =
                  get_dag_runs(dag_u.dag_id, agg.runs[dag_u.dag_id])]
    /\ UNCHANGED outsideSummary

NextRuns ==
    \/ \E run \in RunValues : AddRun(run)
    \/ Summarize
    \/ DagRuns

SpecRuns == InitRuns /\ [][NextRuns]_vars

\* the run has no state: the key is missing or its value is null
Stateless(run) == run # None /\ ("state" \notin DOMAIN run \/ run.state = None)

NotNull(run) == run # None
NullOrStateless(run) == run = None \/ Stateless(run)
Stated(run) == ~NullOrStateless(run)

\* C28: a run without state and a null run cause no error; the aggregation
\* counts them under none of failed, success, running and queued, so the
\* four counters are what the other runs alone give; get_dag_runs skips a
\* null run and displays a run without state as queued.
C28_NullState ==
    LET runs == agg.runs[dag_u.dag_id]
        stated == SelectSeq(runs, Stated)
        shown == SelectSeq(runs, NotNull)
    IN /\ agg.out # None =>
             \A field \in StateCounts :
                /\ agg.out.domain[field]
                      = _build_domain_summary(
                            "untagged", agg.dags,
                            Put(EmptyMap, dag_u.dag_id, stated), now)[field]
                /\ agg.out.dag[field]
                      = _build_dag_summary_from_runs(dag_u, stated)[field]
       /\ agg.detail # None =>
             /\ (\A i \in DOMAIN runs :
                    \/ NullOrStateless(runs[i])
                    \/ runs[i].state.value \in DagRunStates)
                   => agg.detail.error = "none"
             /\ agg.detail.error = "none" =>
                   /\ Len(agg.detail.summaries) = Len(shown)
                   /\ \A i \in DOMAIN shown :
                         Stateless(shown[i]) =>
                            agg.detail.summaries[i].state = "queued"

\* a null run, a run whose state is null and a run without state were
\* aggregated and displayed
C28_Witness ==
    /\ agg.runs[dag_u.dag_id] = <<None, [state |-> None], RunWithoutState>>
    /\ agg.out # None
    /\ agg.out.domain.total_runs = 2
    /\ agg.out.domain.queued_count = 0
    /\ agg.detail # None
    /\ agg.detail.error = "none"
    /\ Len(agg.detail.summaries) = 2
    /\ agg.detail.summaries[1].state = "queued"

-----------------------------------------------------------------------------
(* SpecLifespan: lifespan() of app/main.py with its two tasks,             *)
(* precompute_failure_analysis() and scheduled_reporter.run_scheduler().   *)
(* The tasks run on one event loop: a task is suspended at an await, not   *)
(* started yet, or done.  Task.cancel() makes the task's next step raise   *)
(* CancelledError at the await it is suspended in; a task cancelled before *)
(* its first step never runs its body.                                     *)

\* [TimeRange.HOURS_24, TimeRange.DAYS_7, TimeRange.DAYS_30]
PrecomputeRanges == <<"24h", "7d", "30d">>

\* what get_failure_analysis may raise
AnalysisErrors == {"HTTPStatusError", "RequestError", "ValueError"}

\* "except Exception" as it would be if it caught every exception
except_exception_base(e) == TRUE

\* what "except Exception" catches: asyncio.CancelledError derives from
\* BaseException, the errors of a request from Exception
except_exception(e) == e # "CancelledError"

InitLifespan ==
    /\ CoreIdle
    /\ ExtraIdle

\* lifespan up to its yield: the precomputation task is created, and the
\* report task if scheduled reports and Slack are enabled
Startup(scheduled) ==
    /\ lifespan = Idle
    /\ lifespan' = [pc |-> "serving",
                    running |-> FALSE,
                    scheduler_task |-> IF scheduled THEN "created"
                                       ELSE "none",
                    scheduler_cancel |-> FALSE,
                    background_task |-> "created",
                    background_cancel |-> FALSE,
                    invoked |-> <<>>,
                    at_shutdown |-> None]
    /\ UNCHANGED outsideLifespan

\* run_scheduler starts (self.running = True) or its sleep returns; then
\* "while self.running" and the test of the time: a report is due or not
SchedulerLoop(due) ==
    /\ lifespan.pc # "idle"
    /\ lifespan.scheduler_task \in {"created", "sleep"}
    /\ ~lifespan.scheduler_cancel
    /\ LET running == lifespan.scheduler_task = "created" \/ lifespan.running
       IN lifespan' = [lifespan EXCEPT
                          !.running = running,
                          !.scheduler_task = IF ~running THEN "done"
                                             ELSE IF due THEN "report"
                                             ELSE "sleep"]
    /\ UNCHANGED outsideLifespan

\* generate_and_send_report returns; "await asyncio.sleep(60)"
ReportReturns ==
    /\ lifespan.pc # "idle"
    /\ lifespan.scheduler_task = "report"
    /\ ~lifespan.scheduler_cancel
    /\ lifespan' = [lifespan EXCEPT !.scheduler_task = "sleep"]
    /\ UNCHANGED outsideLifespan

\* CancelledError is raised in run_scheduler: before its first step, or at
\* the await of the report or of the sleep, both inside "try ... except
\* Exception", whose handler sleeps and goes on with the loop
SchedulerCancelled ==
    /\ lifespan.pc # "idle"
    /\ lifespan.scheduler_cancel
    /\ lifespan.scheduler_task \in {"created", "sleep", "report"}
    /\ lifespan' = [lifespan EXCEPT
                       !.scheduler_cancel = FALSE,
                       !.scheduler_task =
                          IF /\ lifespan.scheduler_task # "created"
                             /\ except_exception("CancelledError")
                          THEN "sleep" ELSE "done"]
    /\ UNCHANGED outsideLifespan

\* precompute_failure_analysis starts or its sleep returns: a cycle begins
\* with the analysis of the first time range
PrecomputeCycle ==
    /\ lifespan.pc # "idle"
    /\ lifespan.background_task \in {"created", "sleep"}
    /\ ~lifespan.background_cancel
    /\ lifespan' = [lifespan EXCEPT !.background_task = "analysis",
                                    !.invoked = <<PrecomputeRanges[1]>>]
    /\ UNCHANGED outsideLifespan

\* get_failure_analysis returns (e = "none") or raises e: the next time
\* range, or the sleep after the last one and after "except Exception"
AnalysisReturns(e) ==
    /\ lifespan.pc # "idle"
    /\ lifespan.background_task = "analysis"
    /\ ~lifespan.background_cancel
    /\ IF e = "none" /\ Len(lifespan.invoked) < Len(PrecomputeRanges)
       THEN lifespan' = [lifespan EXCEPT !.invoked =
                Append(@, PrecomputeRanges[Len(lifespan.invoked) + 1])]
       ELSE lifespan' = [lifespan EXCEPT !.background_task =
                IF e = "none" \/ except_exception(e) THEN "sleep"
                ELSE "done"]
    /\ UNCHANGED outsideLifespan

\* CancelledError is raised in precompute_failure_analysis: before its first
\* step, at the sleep, or at the await of the analysis inside "try ...
\* except Exception"
BackgroundCancelled ==
    /\ lifespan.pc # "idle"
    /\ lifespan.background_cancel
    /\ lifespan.background_task \in {"created", "sleep", "analysis"}
    /\ lifespan' = [lifespan EXCEPT
                       !.background_cancel = FALSE,
                       !.background_task =
                          IF /\ lifespan.background_task = "analysis"
                             /\ except_exception("CancelledError")
                          THEN "sleep" ELSE "done"]
    /\ UNCHANGED outsideLifespan

\* background_task.cancel(); await background_task
cancel_background(l) ==
    [l EXCEPT !.pc = "await_background",
              !.background_cancel = l.background_task # "done"]

\* the shutdown begins: "if scheduler_task:" stop(), cancel() and await it;
\* without a report task the precomputation task is cancelled at once
Shutdown ==
    /\ lifespan.pc = "serving"
    /\ LET l == [lifespan EXCEPT
                    !.at_shutdown = <<lifespan.scheduler_task,
                                      lifespan.background_task>>]
       IN lifespan' =
             IF l.scheduler_task # "none"
             THEN [l EXCEPT !.pc = "await_scheduler",
                            !.running = FALSE,
                            !.scheduler_cancel = l.scheduler_task # "done"]
             ELSE cancel_background(l)
    /\ UNCHANGED outsideLifespan

\* "await scheduler_task" returns or raises CancelledError
SchedulerAwaited ==
    /\ lifespan.pc = "await_scheduler"
    /\ lifespan.scheduler_task = "done"
    /\ lifespan' = cancel_background(lifespan)
    /\ UNCHANGED outsideLifespan

\* "await background_task" returns or raises CancelledError
BackgroundAwaited ==
    /\ lifespan.pc = "await_background"
    /\ lifespan.background_task = "done"
    /\ lifespan' = [lifespan EXCEPT !.pc = "down"]
    /\ UNCHANGED outsideLifespan

NextLifespan ==
    \/ \E scheduled \in BOOLEAN : Startup(scheduled)
    \/ \E due \in BOOLEAN : SchedulerLoop(due)
    \/ ReportReturns
    \/ SchedulerCancelled
    \/ PrecomputeCycle
    \/ \E e \in {"none"} \cup AnalysisErrors : AnalysisReturns(e)
    \/ BackgroundCancelled
    \/ Shutdown
    \/ SchedulerAwaited
    \/ BackgroundAwaited

SpecLifespan == InitLifespan /\ [][NextLifespan]_vars

\* the event loop runs every task that can take a step, and a sleep, a
\* report and an analysis come back
FairLifespan ==
    /\ SpecLifespan
    /\ WF_vars(\E due \in BOOLEAN : SchedulerLoop(due))
    /\ WF_vars(ReportReturns)
    /\ WF_vars(SchedulerCancelled)
    /\ WF_vars(PrecomputeCycle)
    /\ WF_vars(\E e \in {"none"} \cup AnalysisErrors : AnalysisReturns(e))
    /\ WF_vars(BackgroundCancelled)
    /\ WF_vars(SchedulerAwaited)
    /\ WF_vars(BackgroundAwaited)

ShuttingDown == lifespan.pc \in {"await_scheduler", "await_background"}

TasksDone ==
    /\ lifespan.pc = "down"
    /\ lifespan.scheduler_task \in {"none", "done"}
    /\ lifespan.background_task = "done"

\* a task that was cancelled or is done does nothing but end
C29_Step ==
    /\ (lifespan.pc # "idle" /\ lifespan.scheduler_cancel) =>
          lifespan'.scheduler_task \in {lifespan.scheduler_task, "done"}
    /\ (lifespan.pc # "idle" /\ lifespan.background_cancel) =>
          /\ lifespan'.background_task \in {lifespan.background_task, "done"}
          /\ lifespan'.invoked = lifespan.invoked
    /\ (lifespan.pc # "idle" /\ lifespan.scheduler_task = "done") =>
          lifespan'.scheduler_task = "done"
    /\ (lifespan.pc # "idle" /\ lifespan.background_task = "done") =>
          /\ lifespan'.background_task = "done"
          /\ lifespan'.invoked = lifespan.invoked

\* C29: whatever the two loops are doing when the shutdown begins, the
\* shutdown sequence ends with both tasks terminated, and a task that was
\* cancelled or has terminated starts no report generation and no analysis
\* (hence no cache write) any more.
C29_Shutdown ==
    /\ ShuttingDown ~> TasksDone
    /\ [][C29_Step]_vars

\* the shutdown began in the middle of a report generation and of an
\* analysis and has ended
C29_Witness ==
    /\ lifespan.pc = "down"
    /\ lifespan.at_shutdown = <<"report", "analysis">>
    /\ lifespan.scheduler_task = "done"
    /\ lifespan.background_task = "done"

\* C30 as stated: when a cycle of the precomputation loop reaches its sleep
\* the failure analysis was invoked once for each of 24h, 7d and 30d, also
\* when the analysis of one of them failed.
C30_AsStated ==
    (lifespan.pc # "idle" /\ lifespan.background_task = "sleep") =>
        lifespan.invoked = PrecomputeRanges

-----------------------------------------------------------------------------
(* SpecWindow: _is_time_to_report applied to times of day *)

\* the target times: the defaults and the two ends of the day
WindowTargets == {time(0, 0), time(10, 0), time(19, 0), time(23, 59)}

\* one call of _is_time_to_report(current_time, target_time)
CheckWindow(current, target) ==
    /\ sched = Idle
    /\ sched' = [pc |-> "checked", current |-> current, target |-> target,
                 ret |-> _is_time_to_report(current, target)]
    /\ UNCHANGED outsideSched

\* the next call
CheckAgain ==
    /\ sched.pc = "checked"
    /\ sched' = Idle
    /\ UNCHANGED outsideSched

NextWindow ==
    \/ \E current \in 0..(MinutesPerDay - 1), target \in WindowTargets :
          CheckWindow(current, target)
    \/ CheckAgain

SpecWindow == InitSched /\ [][NextWindow]_vars

\* minutes between two times of day, the shorter way round the clock
clock_distance(a, b) ==
    IF abs(a - b) <= MinutesPerDay - abs(a - b) THEN abs(a - b)
    ELSE MinutesPerDay - abs(a - b)

\* C31 as stated: _is_time_to_report(current, target) is true exactly when
\* current lies within one minute of target on the clock, the window of a
\* target at 00:00 or 23:59 reaching across midnight.
C31_AsStated ==
    sched.pc = "checked" =>
        (sched.ret <=> clock_distance(sched.current, sched.target)
                           <= window_minutes)

\* away from midnight the window is the three minutes around the target
WindowWithinDay ==
    (sched.pc = "checked" /\ sched.target \in {time(10, 0), time(19, 0)}) =>
        (sched.ret <=> clock_distance(sched.current, sched.target)
                           <= window_minutes)


-----------------------------------------------------------------------------
(* AirflowAPIClient.__init__ with several strategies configured            *)

TokenSet == IsSet("airflow_api_token")
BasicSet == IsSet("airflow_username") /\ IsSet("airflow_password")
MwaaSet == IsSet("aws_region") /\ IsSet("mwaa_environment_name")

\* more than one credential strategy is fully configured
Ambiguous ==
    \/ TokenSet /\ BasicSet
    \/ TokenSet /\ MwaaSet
    \/ BasicSet /\ MwaaSet

-----------------------------------------------------------------------------
(* SpecClear: the service with POST /cache/clear (app/api/routes.py)       *)
(* arriving between the steps of its calls                                 *)

\* clear_cache: cache_service.clear_all() returns True, or False when the
\* Redis flush raised and nothing was removed.  history.last_success
\* restarts: it holds the writes made since the last clear.
clear_cache(ok) ==
    /\ ok \/ use_redis
    /\ StoreCache(IF ok THEN clear_all(CacheState) ELSE CacheState)
    /\ cache_op' = [op |-> "clear_all", ret |-> ok,
                    had |-> {k \in Keys : View(CacheState, now)[k] # None}]
    /\ history' = IF ok
                  THEN [history EXCEPT !.last_success = [k \in Keys |-> -1]]
                  ELSE history
    /\ result' = NoResult
    /\ UNCHANGED <<use_redis, now, airflow_dags, call, outsideService>>

NextClear ==
    \/ \E op \in ServiceOps, domain_tag \in DomainTags,
          force_refresh \in BOOLEAN :
          ServiceStart(op, domain_tag, force_refresh)
    \/ ListOk
    \/ \E e \in UpstreamErrors : ListError(e)
    \/ RunsFetched
    \/ \E llm_ok \in BOOLEAN : Analyzed(llm_ok)
    \/ Cancel
    \/ \E listing \in Listings : UpstreamChange(listing)
    \/ \E d \in TickSteps : Tick(d)
    \/ \E ok \in BOOLEAN : clear_cache(ok)

SpecClear == InitService /\ [][NextClear]_vars

\* the key has not been set since the last successful clear_all
UnsetSinceClear(k) == history.last_success[k] = -1

\* C33: after clear_all succeeds, get returns absent for every key, the
\* fallback and failure-analysis keys included, until the key is set again;
\* so a dashboard or domain request whose upstream fetch fails before the
\* fallback key is set again raises instead of serving stale data.
C33_Cleared ==
    /\ \A k \in Keys :
          UnsetSinceClear(k) => get(CacheState, now, k).ret = None
    /\ (/\ result.outcome \in {"returned", "raised"}
        /\ result.op \in {"dashboard", "domain"}
        /\ result.error # "none"
        /\ UnsetSinceClear(fallback_cache_key(result)))
          => /\ result.outcome = "raised"
             /\ result.payload = None

\* a clear removed a fallback entry, and the request that followed failed
\* upstream and raised
C33_Witness ==
    /\ cache_op.op = "clear_all"
    /\ cache_op.ret
    /\ result.outcome = "raised"
    /\ result.op = "dashboard"
    /\ result.error \in UpstreamErrors
    /\ fallback_cache_key(result) \in cache_op.had


-----------------------------------------------------------------------------
(* SpecSweep: the in-process cache next to its size limit.  The map starts *)
(* with the entries of earlier requests, one of them older than the rest.  *)

SweepStart == cache_ttl_seconds \div 2   \* the clock when the behaviour starts

filler_key(i) == "domain:" \o ToString(i) \o ":24h"
FillerKeys(n) == {filler_key(i) : i \in 1..n}
\* the key written at 0; the others were written at SweepStart
EarlyKeys == {filler_key(1)}
FillerValue == [kind |-> "dashboard", last_updated |-> DateTime(0)]

\* the map after n sets of distinct keys; the size limit was never exceeded
InitSweep ==
    /\ use_redis = FALSE
    /\ redis_db = EmptyMap
    /\ now = SweepStart
    /\ \E n \in {MemoryCacheLimit - 1, MemoryCacheLimit} :
          /\ memory_cache = [k \in FillerKeys(n) |-> FillerValue]
          /\ cache_timestamps =
                [k \in FillerKeys(n) |->
                    IF k \in EarlyKeys THEN 0 ELSE SweepStart]
    /\ DriverIdle
    /\ GroupIdle
    /\ GatewayIdle
    /\ ServiceIdle
    /\ ExtraIdle

NextSweep ==
    \/ \E key \in CacheKeys, ttl \in {0, FallbackTtl} :
          CacheSet(key, FillerValue, ttl)
    \/ \E key \in CacheKeys : CacheGet(key)
    \/ \E key \in CacheKeys : CacheDelete(key)
    \/ CacheClearAll
    \/ \E d \in StampSteps : Tick(d)

SpecSweep == InitSweep /\ [][NextSweep]_vars

\* the TTL of the entry of k has elapsed at t, as the in-process get tests it
ttl_elapsed(stamps, k, t) == ~memory_fresh(stamps[k], t)

\* C34: the eager sweep runs only when a set makes the map exceed 1000
\* entries; it removes exactly the entries whose TTL has elapsed and leaves
\* every unexpired entry (key, value, timestamp) unchanged, so that the map
\* can hold more than 1000 entries; no other operation sweeps.
C34_Step ==
    LET before == DOMAIN memory_cache
        after == DOMAIN memory_cache'
        key == cache_op'.key
        others == before \ {key}
    IN /\ cache_op'.op = "set" =>
            /\ key \in after
            /\ memory_cache'[key] = last_set'[key].value
            /\ cache_timestamps'[key] = now
            /\ \A k \in others \cap after :
                  /\ memory_cache'[k] = memory_cache[k]
                  /\ cache_timestamps'[k] = cache_timestamps[k]
            /\ after \subseteq before \cup {key}
            /\ IF Cardinality(before \cup {key}) > MemoryCacheLimit
               THEN \A k \in others :
                       k \in after <=> ~ttl_elapsed(cache_timestamps, k, now)
               ELSE others \subseteq after
       /\ cache_op'.op \in {"get", "delete"} =>
            /\ others \subseteq after
            /\ \A k \in others :
                  /\ memory_cache'[k] = memory_cache[k]
                  /\ cache_timestamps'[k] = cache_timestamps[k]
       /\ cache_op'.op = "clear_all" => after = {}
       /\ cache_op'.op = "none" =>
            /\ memory_cache' = memory_cache
            /\ cache_timestamps' = cache_timestamps
-----------------------------------------------------------------------------
(* SpecLast: _build_dag_summary_from_runs over runs with execution dates   *)

DatedRun(state, at) == [state |-> PyStr(state), execution_date |-> DateStr(at)]

\* the entries of dag_runs: runs in the order the server lists them, some
\* without execution date, without state or null
DatedRuns ==
    {None,
     DatedRun("success", 1), DatedRun("FAILED", 2), DatedRun("skipped", 3),
     [state |-> PyStr("running")],
     [state |-> PyStr("queued"), execution_date |-> PyStr("")],
     [state |-> None, execution_date |-> DateStr(2)]}

NextLast ==
    \/ \E run \in DatedRuns : AddRun(run)
    \/ Summarize

SpecLast == InitRuns /\ [][NextLast]_vars

\* state and execution date of a run as the upstream lists it; a null entry
\* has neither
upstream_state(run) == IF run = None THEN "" ELSE run_state(run)
upstream_date(run) ==
    IF run = None \/ execution_date(run) \in {None, PyStr("")} THEN None
    ELSE DateTime(execution_date(run).at)

\* C35 as stated: in every workflow summary, last_run_state and
\* last_run_date are the state and execution date of the first run of the
\* upstream-ordered list; they are absent only when the workflow has no run
\* or the first run's state is not one of success, failed, running, queued.
C35_AsStated ==
    agg.out # None =>
       LET runs == agg.runs[dag_u.dag_id]
           s == agg.out.dag
           recognized == runs # <<>>
                            /\ upstream_state(Head(runs)) \in DagRunStates
       IN /\ recognized =>
                s.last_run_state = PyStr(upstream_state(Head(runs)))
          /\ runs # <<>> => s.last_run_date = upstream_date(Head(runs))
          /\ s.last_run_state = None => ~recognized
          /\ s.last_run_date = None => ~recognized

\* C35: in every workflow summary, last_run_state and last_run_date are the
\* state and execution date of the first run of the upstream-ordered list,
\* whatever the dates of the later runs; last_run_state is absent only when
\* there is no run or the first run's state is not one of the four, and
\* last_run_date only when in addition to these cases the first run carries
\* no execution date.
C35_FirstRun ==
    agg.out # None =>
       LET runs == agg.runs[dag_u.dag_id]
           s == agg.out.dag
           recognized == runs # <<>>
                            /\ upstream_state(Head(runs)) \in DagRunStates
       IN /\ recognized =>
                s.last_run_state = PyStr(upstream_state(Head(runs)))
          /\ runs # <<>> => s.last_run_date = upstream_date(Head(runs))
          /\ s.last_run_state = None => ~recognized
          /\ s.last_run_date = None =>
                \/ ~recognized
                \/ upstream_date(Head(runs)) = None

\* the first run is older than the second: the summary carries the first
C35_Witness ==
    /\ agg.out # None
    /\ Len(agg.runs[dag_u.dag_id]) >= 2
    /\ agg.runs[dag_u.dag_id][1] = DatedRun("success", 1)
    /\ agg.runs[dag_u.dag_id][2] = DatedRun("FAILED", 2)
    /\ agg.out.dag.last_run_state = PyStr("success")
    /\ agg.out.dag.last_run_date = DateTime(1)


-----------------------------------------------------------------------------
(* SpecPartial: get_dashboard_data when the GETs of the runs fail for some *)
(* workflows.  runs_call keeps the responses asyncio.gather handed back to *)
(* the current call.                                                       *)

dag_v == [dag_id |-> "d3", tags |-> PyList(<<>>)]

PartialListings == {<<dag_a, dag_u>>, <<dag_u, dag_v>>}

\* what one GET of the runs may end in
PartialResponses ==
    {[kind |-> "exception"], [kind |-> "not_json"]}
    \cup {[kind |-> "dag_runs", dag_runs |-> runs] : runs \in ServiceRuns}

InitPartial ==
    /\ CacheInit
    /\ DriverIdle
    /\ GroupIdle
    /\ GatewayIdle
    /\ airflow_dags \in PartialListings
    /\ call = Idle
    /\ result = NoResult
    /\ history = NoHistory
    /\ ExtraIdle

\* get_all_dag_runs_for_dags: gather returned the responses and the reduce
\* loop turned each into the list of runs of its workflow
RunsGathered ==
    /\ call.pc = "runs"
    /\ call.op = "dashboard"
    /\ \E responses \in [dag_ids(FetchDags) -> PartialResponses] :
          /\ RunsReturn([id \in DOMAIN responses |->
                            run_entry(responses[id])])
          /\ runs_call' =
                [pc |-> "returned",
                 responses |-> IF call.summaries = <<>> THEN responses
                               ELSE responses @@ runs_call.responses]
    /\ UNCHANGED <<use_redis, now, cache_op, airflow_dags, last_set,
                   groupVars, clientVars, req, dags_call, extraVars>>

NextPartial ==
    \/ \E force_refresh \in BOOLEAN :
          ServiceStart("dashboard", "a", force_refresh)
    \/ ListOk
    \/ \E e \in UpstreamErrors : ListError(e)
    \/ RunsGathered
    \/ Cancel
    \/ \E listing \in PartialListings : UpstreamChange(listing)
    \/ \E d \in TickSteps : Tick(d)

SpecPartial == InitPartial /\ [][NextPartial]_vars

\* the GET of the runs of the workflow failed
RunRequestFailed(responses, id) == responses[id].kind # "dag_runs"

\* C36: when the listing succeeded and some or all of the run requests
\* failed, get_dashboard_data still returns; a workflow whose request failed
\* contributes zero runs, so a domain whose requests all failed has
\* total_runs 0, has_failures false and health_score 100.0; the snapshot is
\* written to the primary and to the fallback key, replacing an earlier
\* fallback.
C36_Step ==
    (/\ call.pc = "runs"
     /\ call.op = "dashboard"
     /\ call'.pc = "idle"
     /\ result'.outcome # "cancelled") =>
       LET payload == result'.payload
           responses == runs_call'.responses
           after == [memory_cache |-> memory_cache',
                     cache_timestamps |-> cache_timestamps',
                     redis_db |-> redis_db']
           stored == IF use_redis THEN JsonRoundTrip(payload) ELSE payload
       IN /\ result'.outcome = "returned"
          /\ result'.error = "none"
          /\ Len(payload.domains) = Len(call.groups.keys)
          /\ \A i \in DOMAIN payload.domains :
                LET d == payload.domains[i]
                    ids == dag_ids(call.groups.lists[d.domain_tag])
                    ok == {id \in ids : ~RunRequestFailed(responses, id)}
                IN /\ d.total_runs =
                         sum_over([id \in ok |-> responses[id].dag_runs],
                                  ok, "*")
                   /\ ok = {} => /\ d.total_runs = 0
                                 /\ d.failed_count = 0
                                 /\ d.has_failures = FALSE
                                 /\ d.health_score = 10000
          /\ get(after, now, dashboard_key(call.time_range)).ret = stored
          /\ get(after, now, dashboard_fallback_key(call.time_range)).ret
                = stored
AllRequestsFailed ==
    /\ result.outcome = "returned"
    /\ result.op = "dashboard"
    /\ result.src = "live"
    /\ runs_call.pc = "returned"
    /\ \A id \in DOMAIN runs_call.responses :
          RunRequestFailed(runs_call.responses, id)
    /\ \A i \in DOMAIN result.payload.domains :
          result.payload.domains[i].health_score = 10000


-----------------------------------------------------------------------------
(* the date guard of a slot after a generation that returned False *)

\* the date guard the loop holds for the slot
last_date(s, slot) ==
    IF slot = "morning" THEN s.last_morning_date ELSE s.last_evening_date

\* C37: the date guard of a slot is recorded after its generation attempt
\* whether or not the report was delivered: once the generation of a slot
\* was attempted on day D and returned false, the slot is not attempted
\* again on day D, even at later ticks inside its window.
C37_Guard ==
    sched.pc # "idle" =>
       \A f \in {x \in sched.fired : ~x.delivered} :
          /\ \A g \in Fired(f.slot, f.date) : g = f
          /\ (sched.tick # None /\ sched.tick.at = f.at) =>
                last_date(sched, f.slot) = f.date
          /\ (/\ sched.tick # None
              /\ sched.tick.at > f.at
              /\ Date(sched.tick.at \div MinutesPerDay) = f.date) =>
                /\ sched.tick.slot # f.slot
                /\ last_date(sched, f.slot) = f.date

\* the morning generation returned false at 10:00; the tick at 10:01, inside
\* the window, did not attempt it again
C37_Witness ==
    /\ sched.pc = "loop"
    /\ sched.morning_time = time(10, 0)
    /\ sched.evening_time = time(19, 0)
    /\ [slot |-> "morning", date |-> Date(0), at |-> time(10, 0),
        delivered |-> FALSE] \in sched.fired
    /\ sched.tick = [at |-> time(10, 1), slot |-> "none"]
    /\ _is_time_to_report(sched.tick.at % MinutesPerDay, sched.morning_time)


-----------------------------------------------------------------------------
(* the counters of a summary against its total_runs *)

four_counts(s) ==
    s.failed_count + s.success_count + s.running_count + s.queued_count

\* the run is in one of the four recognized states
Recognized(run) == upstream_state(run) \in DagRunStates

\* C38: in every domain and workflow summary the four counters sum to at
\* most total_runs, with equality exactly when every run counted in
\* total_runs has one of the four recognized states; has_failures holds
\* exactly when failed_count > 0, that is when some run failed.  The domain
\* summary counts the runs that are not null, the workflow summary every
\* entry of the list.
C38_Counts ==
    agg.out # None =>
       LET runs == agg.runs[dag_u.dag_id]
           d == agg.out.domain
           w == agg.out.dag
       IN /\ four_counts(d) <= d.total_runs
          /\ four_counts(d) = d.total_runs <=>
                \A i \in DOMAIN runs : runs[i] # None => Recognized(runs[i])
          /\ four_counts(w) <= w.total_runs
          /\ four_counts(w) = w.total_runs <=>
                \A i \in DOMAIN runs : Recognized(runs[i])
          /\ d.total_runs = Len(SelectSeq(runs, NotNull))
          /\ w.total_runs = Len(runs)
          /\ d.has_failures <=> d.failed_count > 0
          /\ d.has_failures <=>
                \E i \in DOMAIN runs : upstream_state(runs[i]) = "failed"

\* a failed run, a run in another state and a run in upper case: the sum
\* of the counters is below total_runs and has_failures is set
C38_Witness ==
    /\ agg.out # None
    /\ agg.runs[dag_u.dag_id]
          = <<Run("failed"), Run("skipped"), Run("SUCCESS")>>
    /\ four_counts(agg.out.domain) = 2
    /\ agg.out.domain.total_runs = 3
    /\ four_counts(agg.out.dag) = 2
    /\ agg.out.domain.has_failures


-----------------------------------------------------------------------------
(* the two maps of the in-process cache *)

\* a step of get on a key whose entry has expired
ExpiredGet ==
    /\ cache_op'.op = "get"
    /\ cache_op'.key \in DOMAIN memory_cache
    /\ ttl_elapsed(cache_timestamps, cache_op'.key, now)

\* C39: after any sequence of get, set, delete, clear_all and sweep on the
\* in-process cache the value map and the timestamp map have the same key
\* set, and a get that finds an expired entry removes it from both maps and
\* returns absent.
C39_Step ==
    /\ DOMAIN memory_cache' = DOMAIN cache_timestamps'
    /\ ExpiredGet =>
          /\ cache_op'.ret = None
          /\ DOMAIN memory_cache' = DOMAIN memory_cache \ {cache_op'.key}
          /\ DOMAIN cache_timestamps'
                = DOMAIN cache_timestamps \ {cache_op'.key}
C39_Maps ==
    /\ DOMAIN memory_cache = DOMAIN cache_timestamps
    /\ [][C39_Step]_vars

\* a get found the entry it was set with expired and removed it
C39_Witness ==
    /\ cache_op.op = "get"
    /\ cache_op.ret = None
    /\ last_set[cache_op.key] # None
    /\ now - last_set[cache_op.key].at >= cache_ttl_seconds
    /\ cache_op.key \notin DOMAIN memory_cache
    /\ cache_op.key \notin DOMAIN cache_timestamps
    /\ memory_cache # EmptyMap

=============================================================================
